---- MODULE Spec2Model ----
(***************************************************************************)
(* Model of infra/main.py: the `up` / `down` orchestrator of one named     *)
(* application stack (bucket, network, load balancer, registry, log group, *)
(* execution role, ECS cluster / task definition / service) and of the     *)
(* manifest file infra_info.json it writes.                                *)
(*                                                                         *)
(* The program is single-threaded.  Every provisioner call of cmd_up and   *)
(* every try-block of cmd_down is one action; a wait_until loop takes one   *)
(* action per probe, because the cloud may change between two probes, and  *)
(* a deletion-confirmation loop is one action.  The cloud API is the       *)
(* environment: a                                                          *)
(* call on a resource acts on `cloud`, raises the documented not-found /   *)
(* already-exists error when the resource is missing / present, and may    *)
(* raise an injected error (a ClientError with an unexpected code, or an   *)
(* exception that is no ClientError) while the fault budget lasts.         *)
(***************************************************************************)
EXTENDS Naturals, Integers, Sequences, FiniteSets, TLC

\* ------------------------------------------------------------------ bounds
\* Networks tagged for the stack at one time: `up` does not start beyond it.
MaxVpcs == 2
\* Cloud calls that raise an injected error in one behaviour.
MaxFaults == 1
\* Probes of one wait_until that return at once; a later probe is slow.
MaxQuickProbes == 2
\* wait_until on its own: the budgets 0..MaxWaitTimeout, the intervals
\* 1..MaxWaitInterval and the seconds 0..MaxFnTime that one fn() takes.
MaxWaitTimeout == 3
MaxWaitInterval == 2
MaxFnTime == 2
\* cmd_down on its own: the ACTIVE task-definition revisions it may find.
MaxRevs == 2

\* ------------------------------------------------------- program constants
AlbTimeout == 600
AlbInterval == 10
SvcTimeout == 900
SvcInterval == 10
DrainTimeout == 600
DrainInterval == 10
ClusterChecks == 10
EcrChecks == 5
LogChecks == 5
IamChecks == 5
VpcChecks == 10
NotebookTimeout == 600
NotebookInterval == 10

StackName == "demo"
Account == "acct"
\* An error a cloud call raises: botocore's ClientError, or any other exception.
ErrKinds == {"ClientError", "Other"}
\* The objects create_vpc_stack puts into a network, in creation order.
VpcParts == <<"igw", "rt", "sn1", "sn2", "alb_sg", "svc_sg">>
VpcPartSet == {VpcParts[i] : i \in 1..Len(VpcParts)}

VARIABLES
    cmd,        \* "none", "up" or "down": the command that runs or ran last
    args,       \* its arguments: [no_wait]
    pc,         \* position in cmd_up / cmd_down; "idle", "done", "failed"
    faults,     \* injected errors so far
    cloud,      \* the account's resources
    manifest,   \* content of infra_info.json
    loc,        \* local variables of the running command
    elapsed,    \* time.time() - start of the running wait_until
    tries,      \* probes the last confirmation loop made
    log,        \* this run's provisioner calls: begin / end / mutating call
    out,        \* what this run has printed: manifest field names, warnings
    exc,        \* the exception that escaped the command, or "none"
    manifest0   \* content of infra_info.json when the command started

vars == <<cmd, args, pc, faults, cloud, manifest, loc, elapsed, tries,
          log, out, exc, manifest0>>

\* ------------------------------------------------------------------ values
\* A deleted service or cluster stays in the cloud as INACTIVE, which every
\* call of the program reads as absent: the model keeps "none" for both.
NoService ==
    [status |-> "none", desired |-> 0, running |-> 0, td |-> 0, net |-> 0, tg |-> 0]
NoLb == [arn |-> 0]

Cloud0 ==
    [bucket |-> FALSE, vpcs |-> {}, lb |-> NoLb, tg |-> 0, listener |-> 0,
     repo |-> FALSE, latest |-> FALSE, logGroup |-> FALSE,
     role |-> FALSE, policy |-> FALSE, cluster |-> "none",
     service |-> NoService, taskdefs |-> {}]

\* f"{name}-{account_id}-bucket"
BucketName(n, a) == <<n, a, "bucket">>
\* f"/ecs/{name}"
LogGroupName(n) == <<"", "ecs", n>>
\* repositoryUri: <account>.dkr.ecr.<region>.amazonaws.com/<name>, as its "/"-separated parts
RepoUri(n) == <<Account, n>>
\* ecr_repo_url.split("/")[-1]
RepoNameOf(uri) == uri[Len(uri)]
\* arn:aws:iam::<account>:role/<name>-task-execution
RoleArn(n) == <<Account, "role", n, "task-execution">>

NoLoc ==
    [set |-> {}, vpc_id |-> 0, lb_arn |-> 0, tg_arn |-> 0, listener_arn |-> 0,
     task_def_arn |-> 0, has_latest |-> FALSE, ecr_repo_url |-> <<>>,
     bucket_name |-> BucketName(StackName, Account), cluster |-> StackName,
     log_group |-> LogGroupName(StackName), repo_name |-> StackName]

NoManifest == [kind |-> "none"]

Least(S) == CHOOSE x \in 1..(Cardinality(S) + 1) : x \notin S /\ \A y \in 1..x-1 : y \in S

\* The cloud names a new object by an identifier nothing of its kind holds.
\* Identifiers are opaque, so the model takes the least number that neither
\* the cloud nor the manifest holds: for a network,
FreshVpcId(c, m) ==
    Least({v.id : v \in c.vpcs} \cup (IF m.kind = "up" THEN {m.vpc_id} ELSE {}))

\* and for a load balancer with its target group and listener.
FreshArn(c, m) ==
    Least({c.lb.arn, c.tg, c.listener}
              \cup (IF m.kind = "up" THEN {m.alb_arn} ELSE {}))

\* Mutant: register_task_definition hands back the family's latest ACTIVE
\* revision when there is one.
FreshRev_Reuse(c, m) ==
    IF c.taskdefs # {}
    THEN CHOOSE r \in c.taskdefs : \A q \in c.taskdefs : q <= r
    ELSE Least({c.service.td}
                   \cup (IF m.kind = "up" THEN {m.task_def_arn} ELSE {}))

\* The revision register_task_definition gives: one that no active
\* revision, no service and no manifest holds.
FreshRev(c, m) ==
    Least(c.taskdefs \cup {c.service.td}
              \cup (IF m.kind = "up" THEN {m.task_def_arn} ELSE {}))

Ev(k, n) == [k |-> k, n |-> n]
Begin(n) == Ev("begin", n)
End(n) == Ev("end", n)
Call(n) == Ev("call", n)
\* a call that raised
Failed(n) == Ev("fail", n)
Calls(s) == [i \in 1..Len(s) |-> Call(s[i])]
Take(s, k) == SubSeq(s, 1, k)

\* A wait_until that gives up as soon as the budget is used up.
wait_until_AtBudget(ok, t, timeout) ==
    IF ok THEN "return" ELSE IF t >= timeout THEN "raise" ELSE "sleep"

\* Mutant: a wait_until that tests the timeout before the predicate.
wait_until_TimeoutFirst(ok, t, timeout) ==
    IF t > timeout THEN "raise" ELSE IF ok THEN "return" ELSE "sleep"

\* wait_until's loop body after fn() returned `ok` with `t` seconds elapsed
wait_until(ok, t, timeout) ==
    IF ok THEN "return" ELSE IF t > timeout THEN "raise" ELSE "sleep"

\* The time fn() takes in a probe of wait_until: none, or (a slow call) as
\* long as the whole budget.  After MaxQuickProbes sleeps every probe is slow.
ProbeTime(el, interval, timeout) ==
    (IF el < MaxQuickProbes * interval THEN {0} ELSE {}) \cup {timeout}

Init ==
    /\ cmd = "none"
    /\ args = [no_wait |-> FALSE]
    /\ pc = "idle"
    /\ faults = 0
    /\ cloud = Cloud0
    /\ manifest = NoManifest
    /\ loc = NoLoc
    /\ elapsed = 0
    /\ tries = 0
    /\ log = <<>>
    /\ out = {}
    /\ exc = "none"
    /\ manifest0 = NoManifest

\* --------------------------------------------------------------- cmd_up
\* A cmd_up that builds the load balancer before the network.
NextPcUp_LbFirst(p) ==
    CASE p = "up_acct" -> "up_s3"
      [] p = "up_s3" -> "up_alb"
      [] p = "up_alb" -> "up_alb_wait"
      [] p = "up_alb_wait" -> "up_vpc"
      [] p = "up_vpc" -> "up_ecr"
      [] p = "up_ecr" -> "up_push"
      [] p = "up_push" -> "up_logs"
      [] p = "up_logs" -> "up_iam"
      [] p = "up_iam" -> "up_cluster"
      [] p = "up_cluster" -> "up_taskdef"
      [] p = "up_taskdef" -> "up_haslatest"
      [] p = "up_haslatest" -> "up_service"
      [] p = "up_service" -> "up_service_wait"
      [] p = "up_service_wait" -> "up_save"
      [] p = "up_save" -> "done"
      [] OTHER -> "failed"

\* The statement that follows each provisioner call of cmd_up.
NextPcUp(p) ==
    CASE p = "up_acct" -> "up_s3"
      [] p = "up_s3" -> "up_vpc"
      [] p = "up_vpc" -> "up_alb"
      [] p = "up_alb" -> "up_alb_wait"
      [] p = "up_alb_wait" -> "up_ecr"
      [] p = "up_ecr" -> "up_push"
      [] p = "up_push" -> "up_logs"
      [] p = "up_logs" -> "up_iam"
      [] p = "up_iam" -> "up_cluster"
      [] p = "up_cluster" -> "up_taskdef"
      [] p = "up_taskdef" -> "up_haslatest"
      [] p = "up_haslatest" -> "up_service"
      [] p = "up_service" -> "up_service_wait"
      [] p = "up_service_wait" -> "up_save"
      [] p = "up_save" -> "done"
      [] OTHER -> "failed"

\* A cmd_up that catches the exception of a provisioner and goes on.
cmd_up_raise_Swallowed(e, c) ==
    /\ pc' = NextPcUp(pc)
    /\ exc' = exc
    /\ cloud' = c
    /\ manifest' = manifest
    /\ out' = out
    /\ loc' = loc

\* A cmd_up that rolls back on an exception: it deletes the bucket of step 1.
cmd_up_raise_RollBack(e, c) ==
    /\ pc' = "failed"
    /\ exc' = e
    /\ cloud' = [c EXCEPT !.bucket = FALSE]
    /\ manifest' = manifest
    /\ out' = out
    /\ loc' = loc

\* A cmd_up that records what it has so far when an exception ends it.
cmd_up_raise_SavePartial(e, c) ==
    /\ pc' = "failed"
    /\ exc' = e
    /\ cloud' = c
    /\ manifest' = [kind |-> "partial", vpc_id |-> loc.vpc_id]
    /\ out' = out
    /\ loc' = loc

\* A cmd_up that runs the provisioner again when it raised.
cmd_up_raise_Retry(e, c) ==
    /\ pc' = pc
    /\ exc' = exc
    /\ cloud' = c
    /\ manifest' = manifest
    /\ out' = out
    /\ loc' = loc

\* An exception leaves cmd_up: nothing catches it, the process ends.  `c` is
\* the cloud as the calls made so far left it.
cmd_up_raise(e, c) ==
    /\ pc' = "failed"
    /\ exc' = e
    /\ cloud' = c
    /\ manifest' = manifest
    /\ out' = out
    /\ loc' = loc

\* One more injected error.  The injected errors of a behaviour are one
\* outage: they fall in one command run (Outage below).
Fault ==
    /\ faults < MaxFaults
    /\ faults' = faults + 1

\* The budget of injected errors when the next command starts: what a run
\* left of it after an injected error is forfeited.
Outage(n) == IF n > 0 THEN MaxFaults ELSE 0

StartUp ==
    /\ pc \in {"idle", "done", "failed"}
    /\ Cardinality(cloud.vpcs) < MaxVpcs
    /\ cmd' = "up"
    /\ \E nw \in BOOLEAN : args' = [no_wait |-> nw]
    /\ pc' = "up_acct"
    /\ loc' = NoLoc
    /\ log' = <<>>
    /\ out' = {}
    /\ exc' = "none"
    /\ elapsed' = 0
    /\ tries' = 0
    /\ manifest0' = manifest
    /\ faults' = Outage(faults)
    /\ UNCHANGED <<cloud, manifest>>

\* acct = get_account_id()
up_get_account_id ==
    /\ pc = "up_acct"
    /\ \/ /\ pc' = NextPcUp(pc)
          /\ UNCHANGED <<faults, cloud, manifest, loc, out, exc>>
       \/ \E e \in ErrKinds : Fault /\ cmd_up_raise(e, cloud)
    /\ UNCHANGED <<cmd, args, elapsed, tries, log, manifest0>>

ensure_s3_bucket ==
    /\ pc = "up_s3"
    /\ \/ \* create_bucket returns, or raises BucketAlreadyOwnedByYou (swallowed)
          /\ cloud' = [cloud EXCEPT !.bucket = TRUE]
          /\ loc' = [loc EXCEPT !.set = @ \cup {"bucket_name"}]
          /\ log' = log \o <<Begin("ensure_s3_bucket"), Call("create_bucket"),
                             End("ensure_s3_bucket")>>
          /\ out' = out \cup {"s3_bucket"}
          /\ pc' = NextPcUp(pc)
          /\ UNCHANGED <<faults, manifest, exc>>
       \/ \* get_account_id raises
          \E e \in ErrKinds :
             /\ Fault
             /\ log' = Append(log, Begin("ensure_s3_bucket"))
             /\ cmd_up_raise(e, cloud)
       \/ \* create_bucket raises another error
          \E e \in ErrKinds :
             /\ Fault
             /\ log' = log \o <<Begin("ensure_s3_bucket"), Call("create_bucket")>>
             /\ cmd_up_raise(e, cloud)
    /\ UNCHANGED <<cmd, args, elapsed, tries, manifest0>>

\* The calls of create_vpc_stack that create something, in order.
VpcCalls ==
    <<"create_vpc", "create_tags", "create_internet_gateway", "create_route_table",
      "create_subnet", "create_subnet", "create_security_group",
      "create_security_group">>

\* Mutant: every object of the network is there from the first call on.
VpcAfter_All(id, k) ==
    [id |-> id, tagged |-> TRUE, parts |-> VpcPartSet]

\* The network `id` after the first k creating calls of create_vpc_stack.
VpcAfter(id, k) ==
    [id |-> id, tagged |-> k >= 2,
     parts |-> {VpcParts[i] : i \in 1..(IF k > 2 THEN k - 2 ELSE 0)}]

\* authorize_security_group_egress on a group just created; dup: the group
\* came with the rule, the call raises InvalidPermission.Duplicate and the
\* handler swallows it.
EgressRule(dup) ==
    IF dup THEN <<Call("authorize_security_group_egress"),
                  Failed("authorize_security_group_egress")>>
    ELSE <<Call("authorize_security_group_egress")>>

\* What create_vpc_stack logs for its first k creating calls, the last of
\* them raising when `raised`.
RECURSIVE VpcLog(_, _, _)
VpcLog(k, dup, raised) ==
    IF k = 0 THEN <<>>
    ELSE VpcLog(k - 1, dup, FALSE) \o <<Call(VpcCalls[k])>>
            \o (IF VpcCalls[k] = "create_security_group" /\ ~raised
                THEN EgressRule(dup) ELSE <<>>)

create_vpc_stack ==
    /\ pc = "up_vpc"
    /\ LET id == FreshVpcId(cloud, manifest)
           made(k) == IF k = 0 THEN cloud
                      ELSE [cloud EXCEPT !.vpcs = @ \cup {VpcAfter(id, k)}]
           n == Len(VpcCalls)
       IN  \E dup \in BOOLEAN :
           \/ /\ cloud' = made(n)
              /\ loc' = [loc EXCEPT !.set = @ \cup {"net"}, !.vpc_id = id]
              /\ log' = log \o <<Begin("create_vpc_stack")>> \o VpcLog(n, dup, FALSE)
                            \o <<End("create_vpc_stack")>>
              /\ out' = out \cup {"vpc_id"}
              /\ pc' = NextPcUp(pc)
              /\ UNCHANGED <<faults, manifest, exc>>
           \/ \* the (k+1)-th creating call raises
              \E k \in 0..(n - 1), e \in ErrKinds :
                 /\ Fault
                 /\ log' = log \o <<Begin("create_vpc_stack")>>
                               \o VpcLog(k + 1, dup, TRUE)
                 /\ cmd_up_raise(e, made(k))
    /\ UNCHANGED <<cmd, args, elapsed, tries, manifest0>>

AlbCalls == <<"create_load_balancer", "create_target_group", "create_listener">>

\* The cloud after the first k calls of create_alb_stack returned.
AlbAfter(c, id, k) ==
    LET c1 == IF k >= 1
              THEN [c EXCEPT !.lb = [arn |-> id]]
              ELSE c
        c2 == IF k >= 2 THEN [c1 EXCEPT !.tg = id] ELSE c1
    IN  IF k >= 3 THEN [c2 EXCEPT !.listener = id] ELSE c2

\* How many calls of create_alb_stack return before a name that is taken
\* (DuplicateLoadBalancerName, DuplicateTargetGroupName) stops it; 3: none.
AlbDuplicateAt(c) ==
    IF c.lb # NoLb THEN 0 ELSE IF c.tg # 0 THEN 1 ELSE 3

create_alb_stack ==
    /\ pc = "up_alb"
    /\ LET n == Len(AlbCalls)
           d == AlbDuplicateAt(cloud)
           id == FreshArn(cloud, manifest)
       IN  \/ /\ d = n
              /\ cloud' = AlbAfter(cloud, id, n)
              /\ loc' = [loc EXCEPT !.lb_arn = id, !.tg_arn = id,
                                    !.listener_arn = id]
              /\ log' = log \o <<Begin("create_alb_stack")>> \o Calls(AlbCalls)
              /\ pc' = NextPcUp(pc)
              /\ elapsed' = 0
              /\ UNCHANGED <<faults, manifest, out, exc>>
           \/ \* a name is taken: the call raises a ClientError
              /\ d < n
              /\ log' = log \o <<Begin("create_alb_stack")>>
                            \o Calls(Take(AlbCalls, d + 1))
              /\ cmd_up_raise("ClientError", AlbAfter(cloud, id, d))
              /\ UNCHANGED <<faults, elapsed>>
           \/ \* the (k+1)-th call raises an injected error
              \E k \in 0..(n - 1), e \in ErrKinds :
                 /\ k <= d
                 /\ Fault
                 /\ log' = log \o <<Begin("create_alb_stack")>>
                               \o Calls(Take(AlbCalls, k + 1))
                 /\ cmd_up_raise(e, AlbAfter(cloud, id, k))
                 /\ UNCHANGED elapsed
    /\ UNCHANGED <<cmd, args, tries, manifest0>>

\* wait_until(_lb_active, "ALB active", timeout=600, interval=10)
\* _lb_active reads the state describe_load_balancers reports: active at
\* some probe or at none.
create_alb_stack_wait ==
    /\ pc = "up_alb_wait"
    /\ \/ \E d \in ProbeTime(elapsed, AlbInterval, AlbTimeout), active \in BOOLEAN :
             LET r == wait_until(active, elapsed + d, AlbTimeout)
             IN  \/ /\ r = "return"
                    /\ loc' = [loc EXCEPT !.set = @ \cup {"alb"}]
                    /\ log' = Append(log, End("create_alb_stack"))
                    /\ out' = out \cup {"alb_dns"}
                    /\ pc' = NextPcUp(pc)
                    /\ elapsed' = 0
                    /\ UNCHANGED <<faults, cloud, manifest, exc>>
                 \/ /\ r = "sleep"
                    /\ elapsed' = elapsed + d + AlbInterval
                    /\ UNCHANGED <<pc, faults, cloud, manifest, loc, log, out, exc>>
                 \/ /\ r = "raise"
                    /\ cmd_up_raise("TimeoutError", cloud)
                    /\ UNCHANGED <<faults, elapsed, log>>
       \/ \* describe_load_balancers raises
          \E e \in ErrKinds :
             /\ Fault
             /\ cmd_up_raise(e, cloud)
             /\ UNCHANGED <<elapsed, log>>
    /\ UNCHANGED <<cmd, args, tries, manifest0>>

ensure_ecr_repo ==
    /\ pc = "up_ecr"
    /\ \/ \* describe_repositories returns the repository
          /\ cloud.repo
          /\ log' = log \o <<Begin("ensure_ecr_repo"), End("ensure_ecr_repo")>>
          /\ loc' = [loc EXCEPT !.set = @ \cup {"repo"}]
          /\ out' = out \cup {"ecr_repo_url"}
          /\ pc' = NextPcUp(pc)
          /\ UNCHANGED <<faults, cloud, manifest, exc>>
       \/ \* RepositoryNotFoundException: create_repository
          /\ ~cloud.repo
          /\ cloud' = [cloud EXCEPT !.repo = TRUE]
          /\ log' = log \o <<Begin("ensure_ecr_repo"), Call("create_repository"),
                             End("ensure_ecr_repo")>>
          /\ loc' = [loc EXCEPT !.set = @ \cup {"repo"}]
          /\ out' = out \cup {"ecr_repo_url"}
          /\ pc' = NextPcUp(pc)
          /\ UNCHANGED <<faults, manifest, exc>>
       \/ \* describe_repositories raises another error
          \E e \in ErrKinds :
             /\ Fault
             /\ log' = Append(log, Begin("ensure_ecr_repo"))
             /\ cmd_up_raise(e, cloud)
       \/ \* create_repository raises
          \E e \in ErrKinds :
             /\ ~cloud.repo
             /\ Fault
             /\ log' = log \o <<Begin("ensure_ecr_repo"), Call("create_repository")>>
             /\ cmd_up_raise(e, cloud)
    /\ UNCHANGED <<cmd, args, elapsed, tries, manifest0>>

\* try: push_image_to_ecr(...) except Exception: print("[WARN] ...")
push_image_to_ecr ==
    /\ pc = "up_push"
    /\ \/ \* docker login, tag and push succeed
          /\ cloud' = [cloud EXCEPT !.latest = TRUE]
          /\ log' = log \o <<Begin("push_image_to_ecr"), Call("docker_push"),
                             End("push_image_to_ecr")>>
          /\ UNCHANGED faults
       \/ \* a subprocess fails: the exception is swallowed
          /\ Fault
          /\ cloud' = cloud
          /\ log' = log \o <<Begin("push_image_to_ecr"), End("push_image_to_ecr")>>
    /\ pc' = NextPcUp(pc)
    /\ UNCHANGED <<cmd, args, manifest, loc, elapsed, tries, out, exc, manifest0>>

ensure_log_group ==
    /\ pc = "up_logs"
    /\ \/ \* create_log_group returns or raises ResourceAlreadyExistsException
          \* (swallowed); put_retention_policy returns
          /\ cloud' = [cloud EXCEPT !.logGroup = TRUE]
          /\ log' = log \o <<Begin("ensure_log_group"), Call("create_log_group"),
                             Call("put_retention_policy"), End("ensure_log_group")>>
          /\ loc' = [loc EXCEPT !.set = @ \cup {"lg"}]
          /\ out' = out \cup {"log_group"}
          /\ pc' = NextPcUp(pc)
          /\ UNCHANGED <<faults, manifest, exc>>
       \/ \* create_log_group raises another error
          \E e \in ErrKinds :
             /\ Fault
             /\ log' = log \o <<Begin("ensure_log_group"), Call("create_log_group")>>
             /\ cmd_up_raise(e, cloud)
       \/ \* put_retention_policy raises
          \E e \in ErrKinds :
             /\ Fault
             /\ log' = log \o <<Begin("ensure_log_group"), Call("create_log_group"),
                                Call("put_retention_policy")>>
             /\ cmd_up_raise(e, [cloud EXCEPT !.logGroup = TRUE])
    /\ UNCHANGED <<cmd, args, elapsed, tries, manifest0>>

\* An ensure_iam that creates the role without looking for it.
IamCalls_AlwaysCreate(c) == <<"create_role", "attach_role_policy">>

\* The calls ensure_iam issues up to attach_role_policy.
IamCalls(c) ==
    (IF c.role THEN <<>> ELSE <<"create_role">>) \o <<"attach_role_policy">>

ensure_iam ==
    /\ pc = "up_iam"
    /\ LET b == Begin("ensure_iam")
           withRole == [cloud EXCEPT !.role = TRUE]
       IN  \/ \* get_role or create_role, attach_role_policy, get_role return
              /\ cloud' = [withRole EXCEPT !.policy = TRUE]
              /\ log' = log \o <<b>> \o Calls(IamCalls(cloud)) \o <<End("ensure_iam")>>
              /\ loc' = [loc EXCEPT !.set = @ \cup {"exec_arn"}]
              /\ out' = out \cup {"iam_role_arn"}
              /\ pc' = NextPcUp(pc)
              /\ UNCHANGED <<faults, manifest, exc>>
           \/ \* attach_role_policy raises a ClientError: except ClientError: pass
              /\ Fault
              /\ cloud' = withRole
              /\ log' = log \o <<b>> \o Calls(IamCalls(cloud)) \o <<End("ensure_iam")>>
              /\ loc' = [loc EXCEPT !.set = @ \cup {"exec_arn"}]
              /\ out' = out \cup {"iam_role_arn"}
              /\ pc' = NextPcUp(pc)
              /\ UNCHANGED <<manifest, exc>>
           \/ \* the first get_role raises an error other than NoSuchEntity
              \E e \in ErrKinds :
                 /\ Fault
                 /\ log' = log \o <<b>>
                 /\ cmd_up_raise(e, cloud)
           \/ \* create_role raises
              \E e \in ErrKinds :
                 /\ ~cloud.role
                 /\ Fault
                 /\ log' = log \o <<b, Call("create_role")>>
                 /\ cmd_up_raise(e, cloud)
           \/ \* attach_role_policy raises an exception that is no ClientError
              /\ Fault
              /\ log' = log \o <<b>> \o Calls(IamCalls(cloud))
              /\ cmd_up_raise("Other", withRole)
           \/ \* the last get_role raises
              \E e \in ErrKinds :
                 /\ Fault
                 /\ log' = log \o <<b>> \o Calls(IamCalls(cloud))
                 /\ cmd_up_raise(e, [withRole EXCEPT !.policy = TRUE])
    /\ UNCHANGED <<cmd, args, elapsed, tries, manifest0>>

\* An ensure_ecs_cluster that creates the cluster without looking for it.
ensure_ecs_cluster_AlwaysCreate ==
    /\ pc = "up_cluster"
    /\ cloud' = [cloud EXCEPT !.cluster = "ACTIVE"]
    /\ log' = log \o <<Begin("ensure_ecs_cluster"), Call("create_cluster"),
                       End("ensure_ecs_cluster")>>
    /\ loc' = [loc EXCEPT !.set = @ \cup {"cluster"}]
    /\ pc' = NextPcUp(pc)
    /\ UNCHANGED <<faults, manifest, out, exc>>
    /\ UNCHANGED <<cmd, args, elapsed, tries, manifest0>>

ensure_ecs_cluster ==
    /\ pc = "up_cluster"
    /\ \/ \* describe_clusters lists the cluster as ACTIVE
          /\ cloud.cluster = "ACTIVE"
          /\ log' = log \o <<Begin("ensure_ecs_cluster"), End("ensure_ecs_cluster")>>
          /\ loc' = [loc EXCEPT !.set = @ \cup {"cluster"}]
          /\ pc' = NextPcUp(pc)
          /\ UNCHANGED <<faults, cloud, manifest, out, exc>>
       \/ /\ cloud.cluster # "ACTIVE"
          /\ cloud' = [cloud EXCEPT !.cluster = "ACTIVE"]
          /\ log' = log \o <<Begin("ensure_ecs_cluster"), Call("create_cluster"),
                             End("ensure_ecs_cluster")>>
          /\ loc' = [loc EXCEPT !.set = @ \cup {"cluster"}]
          /\ pc' = NextPcUp(pc)
          /\ UNCHANGED <<faults, manifest, out, exc>>
       \/ \* describe_clusters raises
          \E e \in ErrKinds :
             /\ Fault
             /\ log' = Append(log, Begin("ensure_ecs_cluster"))
             /\ cmd_up_raise(e, cloud)
       \/ \* create_cluster raises
          \E e \in ErrKinds :
             /\ cloud.cluster # "ACTIVE"
             /\ Fault
             /\ log' = log \o <<Begin("ensure_ecs_cluster"), Call("create_cluster")>>
             /\ cmd_up_raise(e, cloud)
    /\ UNCHANGED <<cmd, args, elapsed, tries, manifest0>>

register_task_def ==
    /\ pc = "up_taskdef"
    /\ \/ /\ cloud' = [cloud EXCEPT !.taskdefs = @ \cup {FreshRev(cloud, manifest)}]
          /\ log' = log \o <<Begin("register_task_def"),
                             Call("register_task_definition"),
                             End("register_task_def")>>
          /\ loc' = [loc EXCEPT !.set = @ \cup {"task_def_arn"},
                                !.task_def_arn = FreshRev(cloud, manifest)]
          \* print(cluster), print(task_def_arn)
          /\ out' = out \cup {"ecs_cluster", "task_def_arn"}
          /\ pc' = NextPcUp(pc)
          /\ UNCHANGED <<faults, manifest, exc>>
       \/ \E e \in ErrKinds :
             /\ Fault
             /\ log' = log \o <<Begin("register_task_def"),
                                Call("register_task_definition")>>
             /\ cmd_up_raise(e, cloud)
    /\ UNCHANGED <<cmd, args, elapsed, tries, manifest0>>

\* A cmd_up for which a registry without the image is an error.
ecr_has_latest_Raises ==
    /\ pc = "up_haslatest"
    /\ \/ /\ cloud.repo /\ cloud.latest
          /\ loc' = [loc EXCEPT !.has_latest = TRUE]
          /\ log' = log \o <<Begin("ecr_has_latest"), End("ecr_has_latest")>>
          /\ pc' = NextPcUp(pc)
          /\ UNCHANGED <<faults, cloud, manifest, out, exc>>
       \/ /\ ~(cloud.repo /\ cloud.latest)
          /\ log' = Append(log, Begin("ecr_has_latest"))
          /\ cmd_up_raise("ClientError", cloud)
          /\ UNCHANGED faults
    /\ UNCHANGED <<cmd, args, elapsed, tries, manifest0>>

\* if not ecr_has_latest(ecr, name): print("[WARN] ...")
ecr_has_latest ==
    /\ pc = "up_haslatest"
    /\ \/ \* describe_images returns the image, or raises ImageNotFoundException
          \* or RepositoryNotFoundException (the answer is False)
          LET has == cloud.repo /\ cloud.latest
          IN  /\ loc' = [loc EXCEPT !.has_latest = has]
              /\ log' = log \o <<Begin("ecr_has_latest"), End("ecr_has_latest")>>
              /\ out' = IF has THEN out ELSE out \cup {"WARN no latest image"}
              /\ pc' = NextPcUp(pc)
              /\ UNCHANGED <<faults, cloud, manifest, exc>>
       \/ \E e \in ErrKinds :
             /\ Fault
             /\ log' = Append(log, Begin("ecr_has_latest"))
             /\ cmd_up_raise(e, cloud)
    /\ UNCHANGED <<cmd, args, elapsed, tries, manifest0>>

\* A create_or_update_service that takes every service for absent.
ServiceExists_Never(c) == FALSE

\* exists: describe_services returns a service whose status is not INACTIVE
ServiceExists(c) == c.service.status # "none"

create_or_update_service ==
    /\ pc = "up_service"
    /\ LET b == Begin("create_or_update_service")
           call == IF ServiceExists(cloud) THEN "update_service" ELSE "create_service"
           \* create_service(taskDefinition, desiredCount=1, subnets and
           \* security group of the network, target group) /
           \* update_service(taskDefinition, desiredCount=1)
           svc == IF ServiceExists(cloud)
                  THEN [cloud.service EXCEPT !.desired = 1, !.td = loc.task_def_arn]
                  ELSE [status |-> "ACTIVE", desired |-> 1, running |-> 0,
                        td |-> loc.task_def_arn, net |-> loc.vpc_id,
                        tg |-> loc.tg_arn]
       IN  \/ /\ cloud' = [cloud EXCEPT !.service = svc]
              /\ \/ /\ args.no_wait
                    /\ log' = log \o <<b, Call(call), End("create_or_update_service")>>
                    /\ pc' = NextPcUp("up_service_wait")
                 \/ /\ ~args.no_wait
                    /\ log' = log \o <<b, Call(call)>>
                    /\ pc' = NextPcUp(pc)
              /\ elapsed' = 0
              /\ UNCHANGED <<faults, manifest, loc, out, exc>>
           \/ \* describe_services raises
              \E e \in ErrKinds :
                 /\ Fault
                 /\ log' = log \o <<b>>
                 /\ cmd_up_raise(e, cloud)
                 /\ UNCHANGED elapsed
           \/ \* create_service / update_service raises
              \E e \in ErrKinds :
                 /\ Fault
                 /\ log' = log \o <<b, Call(call)>>
                 /\ cmd_up_raise(e, cloud)
                 /\ UNCHANGED elapsed
    /\ UNCHANGED <<cmd, args, tries, manifest0>>

\* A _stable that is content with any service.
Stable_Any(s) == TRUE

\* _stable: runningCount >= 1 and desiredCount == runningCount
Stable(s) == s.running >= 1 /\ s.desired = s.running

\* wait_until(_stable, "ECS service stable", timeout=900, interval=10)
create_or_update_service_wait ==
    /\ pc = "up_service_wait"
    /\ \/ \E d \in ProbeTime(elapsed, SvcInterval, SvcTimeout) :
             LET r == wait_until(Stable(cloud.service), elapsed + d, SvcTimeout)
             IN  \/ /\ r = "return"
                    /\ log' = Append(log, End("create_or_update_service"))
                    /\ pc' = NextPcUp(pc)
                    /\ elapsed' = 0
                    /\ UNCHANGED <<faults, cloud, manifest, loc, out, exc>>
                 \/ /\ r = "sleep"
                    /\ elapsed' = elapsed + d + SvcInterval
                    /\ UNCHANGED <<pc, faults, cloud, manifest, loc, log, out, exc>>
                 \/ /\ r = "raise"
                    /\ cmd_up_raise("TimeoutError", cloud)
                    /\ UNCHANGED <<faults, elapsed, log>>
       \/ \* describe_services raises
          \E e \in ErrKinds :
             /\ Fault
             /\ cmd_up_raise(e, cloud)
             /\ UNCHANGED <<elapsed, log>>
    /\ UNCHANGED <<cmd, args, tries, manifest0>>

\* The fields of infra_info, in the order cmd_up lists them.
InfoFields ==
    {"s3_bucket", "vpc_id", "subnet_ids", "alb_dns", "alb_arn", "alb_sg_id",
     "svc_sg_id", "ecr_repo_url", "ecs_cluster", "ecs_service", "task_def_arn",
     "log_group", "iam_role_arn"}

\* An infra_info with the two security groups taken for one another.
infra_info_SwapSg(l) ==
    [kind |-> "up",
     s3_bucket |-> l.bucket_name,
     vpc_id |-> l.vpc_id,
     subnet_ids |-> <<<<l.vpc_id, 1>>, <<l.vpc_id, 2>>>>,
     alb_dns |-> l.lb_arn,
     alb_arn |-> l.lb_arn,
     alb_sg_id |-> <<l.vpc_id, "svc_sg">>,
     svc_sg_id |-> <<l.vpc_id, "alb_sg">>,
     ecr_repo_url |-> RepoUri(StackName),
     ecs_cluster |-> l.cluster,
     ecs_service |-> StackName,
     task_def_arn |-> l.task_def_arn,
     log_group |-> LogGroupName(StackName),
     iam_role_arn |-> RoleArn(StackName)]

\* infra_info as cmd_up builds it from its local variables.
infra_info(l) ==
    [kind |-> "up",
     s3_bucket |-> l.bucket_name,
     vpc_id |-> l.vpc_id,
     subnet_ids |-> <<<<l.vpc_id, 1>>, <<l.vpc_id, 2>>>>,
     alb_dns |-> l.lb_arn,
     alb_arn |-> l.lb_arn,
     alb_sg_id |-> <<l.vpc_id, "alb_sg">>,
     svc_sg_id |-> <<l.vpc_id, "svc_sg">>,
     ecr_repo_url |-> RepoUri(StackName),
     ecs_cluster |-> l.cluster,
     ecs_service |-> StackName,
     task_def_arn |-> l.task_def_arn,
     log_group |-> LogGroupName(StackName),
     iam_role_arn |-> RoleArn(StackName)]

\* A save_infra_json that updates the object in the file, field by field.
save_infra_json_Merge(info) ==
    manifest' = [f \in DOMAIN manifest \cup DOMAIN info |->
                    IF f \in DOMAIN info THEN info[f] ELSE manifest[f]]

\* json.dump(info, f) into infra_info.json
save_infra_json(info) == manifest' = info

\* save_infra_json(infra_info); print(json.dumps(infra_info)); save_infra_json(infra_info)
cmd_up_save ==
    /\ pc = "up_save"
    /\ save_infra_json(infra_info(loc))
    /\ log' = log \o <<Begin("save_infra_json"), End("save_infra_json")>>
    /\ out' = out \cup InfoFields
    /\ pc' = NextPcUp(pc)
    /\ UNCHANGED <<cmd, args, faults, cloud, loc, elapsed, tries, exc,
                   manifest0>>

\* -------------------------------------------------------------- cmd_down
\* Mutant: the defaults are taken for every field unless the file holds all
\* four.
ManifestGet_AllOrNothing(m, field, default) ==
    IF {"s3_bucket", "ecs_cluster", "log_group", "ecr_repo_url"} \subseteq DOMAIN m
    THEN m[field] ELSE default

\* infra[field] if infra and field in infra else default
ManifestGet(m, field, default) ==
    IF field \in DOMAIN m THEN m[field] ELSE default

\* An exception leaves cmd_down: the process ends with a traceback.
cmd_down_raise(e, c) ==
    /\ pc' = "failed"
    /\ exc' = e
    /\ cloud' = c
    /\ manifest' = manifest
    /\ tries' = 0
    /\ elapsed' = 0

\* A cmd_down that deletes the load balancer and the target group after the
\* execution role, as the last thing before the network.
NextPcDown_LbLate(p) ==
    CASE p = "dn_load" -> "dn_scale"
      [] p = "dn_scale" -> "dn_drain"
      [] p = "dn_drain" -> "dn_delsvc"
      [] p = "dn_delsvc" -> "dn_taskdefs"
      [] p = "dn_taskdefs" -> "dn_cluster"
      [] p = "dn_cluster" -> "dn_cluster_chk"
      [] p = "dn_cluster_chk" -> "dn_ecr"
      [] p = "dn_ecr" -> "dn_ecr_chk"
      [] p = "dn_ecr_chk" -> "dn_logs"
      [] p = "dn_logs" -> "dn_logs_chk"
      [] p = "dn_logs_chk" -> "dn_iam"
      [] p = "dn_iam" -> "dn_iam_chk"
      [] p = "dn_iam_chk" -> "dn_lb"
      [] p = "dn_lb" -> "dn_tg"
      [] p = "dn_tg" -> "dn_vpc"
      [] p = "dn_vpc" -> "dn_vpc_chk"
      [] p = "dn_vpc_chk" -> "dn_s3"
      [] p = "dn_s3" -> "dn_save"
      [] p = "dn_save" -> "done"
      [] OTHER -> "failed"

\* Mutant: a cmd_down that deletes the bucket first.
NextPcDown_BucketFirst(p) ==
    CASE p = "dn_load" -> "dn_s3"
      [] p = "dn_s3" -> "dn_scale"
      [] p = "dn_scale" -> "dn_drain"
      [] p = "dn_drain" -> "dn_delsvc"
      [] p = "dn_delsvc" -> "dn_lb"
      [] p = "dn_lb" -> "dn_tg"
      [] p = "dn_tg" -> "dn_taskdefs"
      [] p = "dn_taskdefs" -> "dn_cluster"
      [] p = "dn_cluster" -> "dn_cluster_chk"
      [] p = "dn_cluster_chk" -> "dn_ecr"
      [] p = "dn_ecr" -> "dn_ecr_chk"
      [] p = "dn_ecr_chk" -> "dn_logs"
      [] p = "dn_logs" -> "dn_logs_chk"
      [] p = "dn_logs_chk" -> "dn_iam"
      [] p = "dn_iam" -> "dn_iam_chk"
      [] p = "dn_iam_chk" -> "dn_vpc"
      [] p = "dn_vpc" -> "dn_vpc_chk"
      [] p = "dn_vpc_chk" -> "dn_save"
      [] p = "dn_save" -> "done"
      [] OTHER -> "failed"

\* The statement that follows each statement of cmd_down.
NextPcDown(p) ==
    CASE p = "dn_load" -> "dn_scale"
      [] p = "dn_scale" -> "dn_drain"
      [] p = "dn_drain" -> "dn_delsvc"
      [] p = "dn_delsvc" -> "dn_lb"
      [] p = "dn_lb" -> "dn_tg"
      [] p = "dn_tg" -> "dn_taskdefs"
      [] p = "dn_taskdefs" -> "dn_cluster"
      [] p = "dn_cluster" -> "dn_cluster_chk"
      [] p = "dn_cluster_chk" -> "dn_ecr"
      [] p = "dn_ecr" -> "dn_ecr_chk"
      [] p = "dn_ecr_chk" -> "dn_logs"
      [] p = "dn_logs" -> "dn_logs_chk"
      [] p = "dn_logs_chk" -> "dn_iam"
      [] p = "dn_iam" -> "dn_iam_chk"
      [] p = "dn_iam_chk" -> "dn_vpc"
      [] p = "dn_vpc" -> "dn_vpc_chk"
      [] p = "dn_vpc_chk" -> "dn_s3"
      [] p = "dn_s3" -> "dn_save"
      [] p = "dn_save" -> "done"
      [] OTHER -> "failed"

StartDown ==
    /\ pc \in {"idle", "done", "failed"}
    /\ cmd' = "down"
    /\ args' = [no_wait |-> FALSE]
    /\ pc' = "dn_load"
    /\ loc' = NoLoc
    /\ log' = <<>>
    /\ out' = {}
    /\ exc' = "none"
    /\ elapsed' = 0
    /\ tries' = 0
    /\ manifest0' = manifest
    /\ faults' = Outage(faults)
    /\ UNCHANGED <<cloud, manifest>>

\* infra = load_infra_json(); account_id = get_account_id(); the locals
cmd_down_load ==
    /\ pc = "dn_load"
    /\ \/ /\ loc' = [loc EXCEPT
                 !.bucket_name = ManifestGet(manifest, "s3_bucket",
                                             BucketName(StackName, Account)),
                 !.ecr_repo_url = ManifestGet(manifest, "ecr_repo_url", <<>>),
                 !.cluster = ManifestGet(manifest, "ecs_cluster", StackName),
                 !.log_group = ManifestGet(manifest, "log_group",
                                           LogGroupName(StackName))]
          /\ log' = log \o <<Begin("load_infra_json"), End("load_infra_json")>>
          /\ pc' = NextPcDown(pc)
          /\ UNCHANGED <<faults, cloud, manifest, exc, tries, elapsed>>
       \/ \* get_account_id raises
          \E e \in ErrKinds :
             /\ Fault
             /\ log' = log \o <<Begin("load_infra_json"), End("load_infra_json")>>
             /\ cmd_down_raise(e, cloud)
             /\ loc' = loc
    /\ UNCHANGED <<cmd, args, out, manifest0>>

\* cleanup_ecs_elb, first try-block: update_service(desiredCount=0)
cleanup_scale ==
    /\ pc = "dn_scale"
    /\ LET b == <<Begin("cleanup_ecs_elb"), Call("update_service")>>
       IN  \/ /\ ServiceExists(cloud) /\ loc.cluster = StackName
              /\ cloud' = [cloud EXCEPT !.service.desired = 0]
              /\ log' = log \o b
              /\ pc' = NextPcDown(pc)
              /\ UNCHANGED faults
           \/ \* no such service: the ClientError is swallowed
              /\ ~(ServiceExists(cloud) /\ loc.cluster = StackName)
              /\ cloud' = cloud
              /\ log' = log \o b \o <<Failed("update_service")>>
              /\ pc' = NextPcDown("dn_drain")
              /\ UNCHANGED faults
           \/ \* update_service raises: except Exception: pass
              /\ Fault
              /\ cloud' = cloud
              /\ log' = log \o b \o <<Failed("update_service")>>
              /\ pc' = NextPcDown("dn_drain")
    /\ elapsed' = 0
    /\ UNCHANGED <<cmd, args, manifest, loc, tries, out, exc, manifest0>>

\* wait_until(_zero, "service drain", timeout=600, interval=10) inside the try
cleanup_drain_wait ==
    /\ pc = "dn_drain"
    /\ \/ \E d \in ProbeTime(elapsed, DrainInterval, DrainTimeout) :
             LET r == wait_until(cloud.service.running = 0, elapsed + d, DrainTimeout)
             IN  \/ /\ r = "return"
                    /\ pc' = NextPcDown("dn_drain")
                    /\ elapsed' = 0
                    /\ UNCHANGED <<faults, log>>
                 \/ /\ r = "sleep"
                    /\ elapsed' = elapsed + d + DrainInterval
                    /\ UNCHANGED <<pc, faults, log>>
                 \/ \* TimeoutError: except Exception: pass
                    /\ r = "raise"
                    /\ pc' = NextPcDown("dn_drain")
                    /\ elapsed' = 0
                    /\ log' = Append(log, Failed("wait_until"))
                    /\ UNCHANGED faults
       \/ \* describe_services raises: except Exception: pass
          /\ Fault
          /\ pc' = NextPcDown("dn_drain")
          /\ elapsed' = 0
          /\ log' = Append(log, Failed("describe_services"))
    /\ UNCHANGED <<cmd, args, cloud, manifest, loc, tries, out, exc, manifest0>>

\* ------------------------------------------------ teardown functions
\* A teardown function is evaluated on st = [cloud, log, err, hit] under a
\* fault choice f = [at, kind]: the call at position f.at raises f.kind.
\* err is the exception on its way out ("none": normal flow); hit tells
\* that the call at f.at was issued.
NoFault == [at |-> "none", idx |-> 0, kind |-> "none"]
\* the fault is at the call `name` / at its idx-th instance
At(f, name) == f.at = name /\ f.idx = 0
AtI(f, name, i) == f.at = name /\ f.idx = i
St0(c) == [cloud |-> c, log |-> <<>>, err |-> "none", hit |-> FALSE]

\* One cloud call; `here`: the fault is at it; `there`: its resource exists (if not,
\* the API raises its not-found ClientError); `after`: the cloud once it
\* returned; `logged`: the call changes something.
ApiCall(st, f, here, name, there, after, logged) ==
    LET issued == IF logged THEN <<Call(name)>> ELSE <<>>
        failed == IF logged THEN <<Call(name), Failed(name)>> ELSE <<Failed(name)>>
    IN  IF here
        THEN [st EXCEPT !.log = @ \o failed, !.err = f.kind, !.hit = TRUE]
        ELSE IF there
        THEN [st EXCEPT !.cloud = after, !.log = @ \o issued]
        ELSE [st EXCEPT !.log = @ \o failed, !.err = "ClientError"]

\* except ClientError: pass
ExceptClientError(st) ==
    IF st.err = "ClientError" THEN [st EXCEPT !.err = "none"] ELSE st

\* except Exception: pass
ExceptException(st) == [st EXCEPT !.err = "none"]

\* cleanup_ecs_elb, second try-block: delete_service(force=True)
cleanup_delete_service(st, f, cluster) ==
    ExceptClientError(
        ApiCall(st, f, At(f, "delete_service"), "delete_service",
                ServiceExists(st.cloud) /\ cluster = StackName,
                [st.cloud EXCEPT !.service = NoService],
                TRUE))

\* cleanup_ecs_elb, third try-block: the load balancer named <name>-alb, its
\* listeners first
cleanup_load_balancer(st, f) ==
    LET c == st.cloud
        s1 == ApiCall(st, f, At(f, "describe_load_balancers"), "describe_load_balancers",
                      TRUE, c, FALSE)
        s2 == ExceptClientError(
                  ApiCall(s1, f, At(f, "describe_listeners"), "describe_listeners",
                          TRUE, c, FALSE))
        \* for l in Listeners: delete_listener (the loop is inside the try of
        \* describe_listeners; each delete has a try of its own)
        s3 == IF s2.err # "none" \/ At(f, "describe_listeners")
                 \/ c.listener = 0
              THEN s2
              ELSE ExceptClientError(
                       ApiCall(s2, f, At(f, "delete_listener"), "delete_listener", TRUE,
                               [c EXCEPT !.listener = 0], TRUE))
        \* deleting a load balancer deletes the listeners it still has
        s4 == IF s3.err # "none" THEN s3
              ELSE ExceptClientError(
                       ApiCall(s3, f, At(f, "delete_load_balancer"), "delete_load_balancer",
                               TRUE,
                               [s3.cloud EXCEPT !.lb = NoLb, !.listener = 0], TRUE))
    IN  IF s1.err # "none" THEN ExceptClientError(s1)
        ELSE IF c.lb = NoLb THEN s1
        ELSE s4

\* cleanup_ecs_elb, fourth try-block: the target group named <name>-tg
cleanup_target_group(st, f) ==
    LET c == st.cloud
        s1 == ApiCall(st, f, At(f, "describe_target_groups"), "describe_target_groups",
                      TRUE, c, FALSE)
    IN  IF s1.err # "none" THEN ExceptClientError(s1)
        ELSE IF c.tg = 0 THEN s1
        ELSE ExceptClientError(
                 ApiCall(s1, f, At(f, "delete_target_group"), "delete_target_group", TRUE,
                         [c EXCEPT !.tg = 0], TRUE))

\* deregister_task_defs: every ACTIVE revision of the family, in list order;
\* `todo` holds the revisions not yet visited
RECURSIVE deregister_revisions(_, _, _)
deregister_revisions(st, f, todo) ==
    IF todo = {} \/ st.err # "none" THEN st
    ELSE LET r == CHOOSE x \in todo : \A y \in todo : x <= y
             s1 == ExceptClientError(
                       ApiCall(st, f, AtI(f, "deregister_task_definition", r),
                               "deregister_task_definition", TRUE,
                               [st.cloud EXCEPT !.taskdefs = @ \ {r}], TRUE))
         IN  deregister_revisions(s1, f, todo \ {r})

deregister_task_defs(st, f) ==
    LET s1 == ApiCall(st, f, At(f, "list_task_definitions"), "list_task_definitions",
                      TRUE, st.cloud, FALSE)
    IN  deregister_revisions(s1, f, st.cloud.taskdefs)

\* ecs.delete_cluster(cluster=cluster) in cmd_down's try; a cluster that
\* still holds an active service is refused (a ClientError)
delete_cluster(st, f, cluster) ==
    ApiCall(st, f, At(f, "delete_cluster"), "delete_cluster",
            /\ st.cloud.cluster = "ACTIVE"
            /\ cluster = StackName
            /\ ~ServiceExists(st.cloud),
            [st.cloud EXCEPT !.cluster = "none"], TRUE)

\* Mutant: a delete_ecr_repo without the handler: RepositoryNotFound escapes.
delete_ecr_repo_Strict(st, f, repo_name) ==
    ApiCall(st, f, At(f, "delete_repository"), "delete_repository",
            st.cloud.repo /\ repo_name = StackName,
            [st.cloud EXCEPT !.repo = FALSE, !.latest = FALSE], TRUE)

delete_ecr_repo(st, f, repo_name) ==
    ExceptClientError(
        ApiCall(st, f, At(f, "delete_repository"), "delete_repository",
                st.cloud.repo /\ repo_name = StackName,
                [st.cloud EXCEPT !.repo = FALSE, !.latest = FALSE], TRUE))

delete_log_group(st, f, name) ==
    ExceptClientError(
        ApiCall(st, f, At(f, "delete_log_group"), "delete_log_group",
                st.cloud.logGroup /\ name = LogGroupName(StackName),
                [st.cloud EXCEPT !.logGroup = FALSE], TRUE))

\* delete_iam: detach the managed policy, delete the inline policies (there
\* are none), delete the role; a role with an attached policy is not deleted
delete_iam(st, f) ==
    LET s1 == ExceptClientError(
                  ApiCall(st, f, At(f, "detach_role_policy"), "detach_role_policy",
                          st.cloud.role /\ st.cloud.policy,
                          [st.cloud EXCEPT !.policy = FALSE], TRUE))
        s2 == IF s1.err # "none" THEN s1
              ELSE ExceptClientError(
                       ApiCall(s1, f, At(f, "list_role_policies"), "list_role_policies",
                               s1.cloud.role, s1.cloud, FALSE))
    IN  IF s2.err # "none" THEN s2
        ELSE ExceptClientError(
                 ApiCall(s2, f, At(f, "delete_role"), "delete_role",
                         s2.cloud.role /\ ~s2.cloud.policy,
                         [s2.cloud EXCEPT !.role = FALSE], TRUE))

\* delete_s3_bucket: list_objects_v2, delete_bucket; every ClientError is
\* printed, NoSuchBucket as information
delete_s3_bucket(st, f, bucket_name) ==
    LET there == st.cloud.bucket /\ bucket_name = BucketName(StackName, Account)
        s1 == ApiCall(st, f, At(f, "list_objects_v2"), "list_objects_v2", there,
                      st.cloud, FALSE)
    IN  IF s1.err # "none" THEN ExceptClientError(s1)
        ELSE ExceptClientError(
                 ApiCall(s1, f, At(f, "delete_bucket"), "delete_bucket", there,
                         [st.cloud EXCEPT !.bucket = FALSE], TRUE))

\* The networks describe_vpcs lists with the tag Name = <name>-vpc.
TaggedVpcs(c) == {v \in c.vpcs : v.tagged}

\* The cloud with part `part` of network v deleted.
WithoutPart(c, v, part) ==
    [c EXCEPT !.vpcs = {IF w.id = v.id THEN [w EXCEPT !.parts = @ \ {part}] ELSE w
                        : w \in @}]
VpcNow(c, v) == CHOOSE w \in c.vpcs : w.id = v.id
Has(c, v, part) == part \in VpcNow(c, v).parts

\* One deletion of nuke_vpc's loops: try: delete except ClientError: print
NukeDelete(st, f, here, name, v, part, allowed) ==
    IF st.err # "none" \/ ~Has(st.cloud, v, part) THEN st
    ELSE ExceptClientError(
             ApiCall(st, f, here, name, allowed, WithoutPart(st.cloud, v, part),
                     TRUE))

\* A describe call of nuke_vpc outside any try: an error leaves nuke_vpc.
NukeDescribe(st, f, name) ==
    IF st.err # "none" THEN st
    ELSE ApiCall(st, f, At(f, name), name, TRUE, st.cloud, FALSE)

\* A describe call of nuke_vpc inside try ... except Exception: pass
NukeDescribeQuiet(st, f, name) ==
    IF st.err # "none" THEN st
    ELSE ExceptException(ApiCall(st, f, At(f, name), name, TRUE, st.cloud, FALSE))

\* nuke_vpc on the network v it found: steps 1 to 8
nuke_found_vpc(st, f, v) ==
    LET s1 == NukeDescribe(st, f, "describe_network_interfaces")
        s2 == NukeDescribeQuiet(s1, f, "describe_nat_gateways")
        s3 == NukeDescribeQuiet(s2, f, "describe_vpc_endpoints")
        \* 4. gateway: detach, then delete (refused while attached)
        s4 == NukeDescribe(s3, f, "describe_internet_gateways")
        s5 == IF s4.err # "none" \/ ~Has(s4.cloud, v, "igw") THEN s4
              ELSE ExceptClientError(
                       ApiCall(s4, f, At(f, "detach_internet_gateway"),
                               "detach_internet_gateway", TRUE, s4.cloud, TRUE))
        s6 == NukeDelete(s5, f, At(f, "delete_internet_gateway"),
                         "delete_internet_gateway", v, "igw",
                         ~At(f, "detach_internet_gateway"))
        \* 5. route table: disassociate, delete the default route, delete
        \*    (refused while a subnet is associated)
        s7 == NukeDescribe(s6, f, "describe_route_tables")
        s8 == IF s7.err # "none" \/ ~Has(s7.cloud, v, "rt") THEN s7
              ELSE ExceptClientError(
                       ApiCall(s7, f, At(f, "disassociate_route_table"),
                               "disassociate_route_table", TRUE, s7.cloud, TRUE))
        s9 == IF s8.err # "none" \/ ~Has(s8.cloud, v, "rt") THEN s8
              ELSE ExceptClientError(
                       ApiCall(s8, f, At(f, "delete_route"), "delete_route", TRUE,
                               s8.cloud, TRUE))
        s10 == NukeDelete(s9, f, At(f, "delete_route_table"), "delete_route_table",
                          v, "rt", ~At(f, "disassociate_route_table"))
        \* 6. subnets
        s11 == NukeDescribe(s10, f, "describe_subnets")
        s12 == NukeDelete(s11, f, AtI(f, "delete_subnet", 1), "delete_subnet",
                          v, "sn1", TRUE)
        s13 == NukeDelete(s12, f, AtI(f, "delete_subnet", 2), "delete_subnet",
                          v, "sn2", TRUE)
        \* 7. security groups other than "default"
        s14 == NukeDescribe(s13, f, "describe_security_groups")
        s15 == NukeDelete(s14, f, AtI(f, "delete_security_group", 1),
                          "delete_security_group", v, "alb_sg", TRUE)
        s16 == NukeDelete(s15, f, AtI(f, "delete_security_group", 2),
                          "delete_security_group", v, "svc_sg", TRUE)
    IN  \* 8. the network itself (refused while it holds anything)
        IF s16.err # "none" THEN s16
        ELSE ExceptClientError(
                 ApiCall(s16, f, At(f, "delete_vpc"), "delete_vpc",
                         VpcNow(s16.cloud, v).parts = {},
                         [s16.cloud EXCEPT !.vpcs = {w \in @ : w.id # v.id}], TRUE))

\* nuke_vpc: v is the first network describe_vpcs lists with the stack's
\* tag, or the id 0 when there is none
nuke_vpc(st, f, vid) ==
    LET s0 == ApiCall(st, f, At(f, "describe_vpcs"), "describe_vpcs", TRUE,
                      st.cloud, FALSE)
    IN  IF s0.err # "none" \/ vid = 0 THEN s0
        ELSE nuke_found_vpc(s0, f, CHOOSE w \in st.cloud.vpcs : w.id = vid)

\* ------------------------------------------- deletion-confirmation helpers
check_deleted_ecs_cluster(c, name) == ~(c.cluster = "ACTIVE" /\ name = StackName)
check_deleted_ecr_repo(c, name) == ~(c.repo /\ name = StackName)
check_deleted_log_group(c, name) == ~(c.logGroup /\ name = LogGroupName(StackName))
check_deleted_iam_role(c) == ~c.role
check_deleted_vpc(c) == TaggedVpcs(c) = {}

\* ------------------------------------------------------ cmd_down, steps
\* The instances of a call that a step issues several times: one per
\* revision, subnet or security group.
Instances(a) ==
    IF a = "deregister_task_definition" THEN cloud.taskdefs
    ELSE IF a \in {"delete_subnet", "delete_security_group"} THEN {1, 2}
    ELSE {0}

\* The fault choices of a step whose calls are `pos`: none, or one instance
\* of one call raises.
FaultChoices(pos) ==
    IF faults >= MaxFaults THEN {NoFault}
    ELSE {NoFault} \cup UNION {
             [at : {a}, kind : ErrKinds, idx : Instances(a)] : a \in pos }

\* One teardown call of cmd_down under the fault choice f.  r is what the
\* function returns under f; pre and post are the markers logged around it.
DownStep(p, f, r, pre, post, newloc) ==
    /\ pc = p
    /\ IF f = NoFault THEN faults' = faults ELSE r.hit /\ Fault
    /\ IF r.err = "none"
       THEN /\ log' = log \o pre \o r.log \o post
            /\ pc' = NextPcDown(p)
            /\ cloud' = r.cloud
            /\ tries' = 0
            /\ UNCHANGED <<manifest, exc, elapsed>>
       ELSE /\ log' = log \o pre \o r.log
            /\ cmd_down_raise(r.err, r.cloud)
    /\ loc' = newloc
    /\ UNCHANGED <<cmd, args, out, manifest0>>

\* Mutant: a loop without the break: it always makes `limit` probes.
confirm_loop_NoBreak(i, limit, deleted) ==
    [probes |-> limit, confirmed |-> deleted]

\* for _ in range(limit): time.sleep(..); if check_deleted_..(): break
\* from iteration i on: the probes made in all and whether one confirmed.
\* Nothing the check reads changes while the loop runs.
RECURSIVE confirm_loop(_, _, _)
confirm_loop(i, limit, deleted) ==
    IF i >= limit THEN [probes |-> i, confirmed |-> FALSE]
    ELSE IF deleted THEN [probes |-> i + 1, confirmed |-> TRUE]
    ELSE confirm_loop(i + 1, limit, deleted)

\* A confirmation loop of cmd_down.  inTry: it stands in a try ... except
\* ClientError.  `tries` keeps the probes made until the next step.
ConfirmLoop(p, limit, deleted, inTry) ==
    /\ pc = p
    /\ \/ /\ tries' = confirm_loop(0, limit, deleted).probes
          /\ pc' = NextPcDown(p)
          /\ UNCHANGED <<faults, cloud, manifest, exc, elapsed, log>>
       \/ \* the read call of a probe raises
          \E e \in ErrKinds :
             /\ Fault
             /\ IF inTry /\ e = "ClientError"
                THEN /\ pc' = NextPcDown(p)
                     /\ tries' = 0
                     /\ UNCHANGED <<cloud, manifest, exc, elapsed>>
                ELSE cmd_down_raise(e, cloud)
             /\ log' = Append(log, Failed("check_deleted"))
    /\ UNCHANGED <<cmd, args, loc, out, manifest0>>

cmd_down_delete_service ==
    \E f \in FaultChoices({"delete_service"}) :
        DownStep("dn_delsvc", f,
                 cleanup_delete_service(St0(cloud), f, loc.cluster),
                 <<>>, <<>>, loc)

cmd_down_load_balancer ==
    \E f \in FaultChoices({"describe_load_balancers", "describe_listeners",
                            "delete_listener", "delete_load_balancer"}) :
        DownStep("dn_lb", f, cleanup_load_balancer(St0(cloud), f),
                 <<>>, <<>>, loc)

cmd_down_target_group ==
    \E f \in FaultChoices({"describe_target_groups", "delete_target_group"}) :
        DownStep("dn_tg", f, cleanup_target_group(St0(cloud), f),
                 <<>>, <<End("cleanup_ecs_elb")>>, loc)

cmd_down_task_defs ==
    \E f \in FaultChoices({"list_task_definitions",
                            "deregister_task_definition"}) :
        DownStep("dn_taskdefs", f, deregister_task_defs(St0(cloud), f),
                 <<Begin("deregister_task_defs")>>,
                 <<End("deregister_task_defs")>>, loc)

\* try: ecs.delete_cluster(..); <confirmation loop> except ClientError: print
cmd_down_delete_cluster ==
    /\ pc = "dn_cluster"
    /\ \E f \in FaultChoices({"delete_cluster"}) :
          LET r == delete_cluster(St0(cloud), f, loc.cluster)
          IN  /\ IF f = NoFault THEN faults' = faults ELSE r.hit /\ Fault
              /\ log' = log \o <<Begin("delete_cluster")>> \o r.log
              /\ IF r.err = "Other"
                 THEN cmd_down_raise(r.err, r.cloud)
                 ELSE /\ pc' = IF r.err = "none" THEN NextPcDown(pc)
                                 ELSE NextPcDown("dn_cluster_chk")
                      /\ cloud' = r.cloud
                      /\ UNCHANGED <<manifest, exc, tries, elapsed>>
    /\ UNCHANGED <<cmd, args, loc, out, manifest0>>

cmd_down_check_cluster ==
    ConfirmLoop("dn_cluster_chk", ClusterChecks,
                check_deleted_ecs_cluster(cloud, loc.cluster), TRUE)

\* repo_name = ecr_repo_url.split("/")[-1] if ecr_repo_url else name
cmd_down_delete_ecr ==
    LET repo_name == IF loc.ecr_repo_url # <<>> THEN RepoNameOf(loc.ecr_repo_url)
                     ELSE StackName
    IN  \E f \in FaultChoices({"delete_repository"}) :
            DownStep("dn_ecr", f, delete_ecr_repo(St0(cloud), f, repo_name),
                     <<Begin("delete_ecr_repo")>>, <<End("delete_ecr_repo")>>,
                     [loc EXCEPT !.repo_name = repo_name])

cmd_down_check_ecr ==
    ConfirmLoop("dn_ecr_chk", EcrChecks,
                check_deleted_ecr_repo(cloud, loc.repo_name), FALSE)

cmd_down_delete_logs ==
    \E f \in FaultChoices({"delete_log_group"}) :
        DownStep("dn_logs", f, delete_log_group(St0(cloud), f, loc.log_group),
                 <<Begin("delete_log_group")>>, <<End("delete_log_group")>>,
                 loc)

cmd_down_check_logs ==
    ConfirmLoop("dn_logs_chk", LogChecks,
                check_deleted_log_group(cloud, loc.log_group), FALSE)

cmd_down_delete_iam ==
    \E f \in FaultChoices({"detach_role_policy", "list_role_policies",
                            "delete_role"}) :
        DownStep("dn_iam", f, delete_iam(St0(cloud), f),
                 <<Begin("delete_iam")>>, <<End("delete_iam")>>, loc)

cmd_down_check_iam ==
    ConfirmLoop("dn_iam_chk", IamChecks, check_deleted_iam_role(cloud), FALSE)

NukeCalls ==
    {"describe_vpcs", "describe_network_interfaces", "describe_nat_gateways",
     "describe_vpc_endpoints", "describe_internet_gateways",
     "detach_internet_gateway", "delete_internet_gateway", "describe_route_tables",
     "disassociate_route_table", "delete_route", "delete_route_table",
     "describe_subnets", "delete_subnet", "describe_security_groups",
     "delete_security_group", "delete_vpc"}

\* Mutant: a cmd_down that deletes the network whose id the manifest holds.
cmd_down_nuke_vpc_ById ==
    \E vid \in IF "vpc_id" \in DOMAIN manifest0
                THEN (IF \E v \in TaggedVpcs(cloud) : v.id = manifest0.vpc_id
                      THEN {manifest0.vpc_id} ELSE {0})
                ELSE {v.id : v \in TaggedVpcs(cloud)}
                         \cup (IF TaggedVpcs(cloud) = {} THEN {0} ELSE {}) :
        \E f \in FaultChoices(NukeCalls) :
            DownStep("dn_vpc", f, nuke_vpc(St0(cloud), f, vid),
                     <<Begin("nuke_vpc")>>, <<End("nuke_vpc")>>, loc)

\* nuke_vpc takes the first tagged network describe_vpcs lists: any of them
cmd_down_nuke_vpc ==
    \E vid \in {v.id : v \in TaggedVpcs(cloud)}
               \cup (IF TaggedVpcs(cloud) = {} THEN {0} ELSE {}) :
        \E f \in FaultChoices(NukeCalls) :
            DownStep("dn_vpc", f, nuke_vpc(St0(cloud), f, vid),
                     <<Begin("nuke_vpc")>>, <<End("nuke_vpc")>>, loc)

cmd_down_check_vpc ==
    ConfirmLoop("dn_vpc_chk", VpcChecks, check_deleted_vpc(cloud), FALSE)

cmd_down_delete_bucket ==
    \E f \in FaultChoices({"list_objects_v2", "delete_bucket"}) :
        DownStep("dn_s3", f,
                 delete_s3_bucket(St0(cloud), f, loc.bucket_name),
                 <<Begin("delete_s3_bucket")>>, <<End("delete_s3_bucket")>>,
                 loc)

\* info = {"ok": True, "message": "deleted (best-effort)"}
down_info == [kind |-> "down", ok |-> TRUE, message |-> "deleted (best-effort)"]

\* print(json.dumps(info)); save_infra_json(info)
cmd_down_save ==
    /\ pc = "dn_save"
    /\ save_infra_json(down_info)
    /\ log' = log \o <<Begin("save_infra_json"), End("save_infra_json")>>
    /\ out' = out \cup {"ok", "message"}
    /\ pc' = NextPcDown(pc)
    /\ tries' = 0
    /\ UNCHANGED <<cmd, args, faults, cloud, loc, elapsed, exc, manifest0>>

\* ---------------------------------------------------------- environment
\* The service's task starts: it needs the image tagged latest.
TaskStarts ==
    /\ cloud.service.status = "ACTIVE"
    /\ cloud.service.desired = 1
    /\ cloud.service.running = 0
    /\ cloud.latest
    /\ cloud' = [cloud EXCEPT !.service.running = 1]
    /\ UNCHANGED <<cmd, args, pc, faults, manifest, loc, elapsed, tries,
                   log, out, exc, manifest0>>

\* The task of a service scaled to zero stops.
TaskStops ==
    /\ cloud.service.status = "ACTIVE"
    /\ cloud.service.desired = 0
    /\ cloud.service.running = 1
    /\ cloud' = [cloud EXCEPT !.service.running = 0]
    /\ UNCHANGED <<cmd, args, pc, faults, manifest, loc, elapsed, tries,
                   log, out, exc, manifest0>>

Next ==
    \/ StartUp
    \/ up_get_account_id
    \/ ensure_s3_bucket
    \/ create_vpc_stack
    \/ create_alb_stack
    \/ create_alb_stack_wait
    \/ ensure_ecr_repo
    \/ push_image_to_ecr
    \/ ensure_log_group
    \/ ensure_iam
    \/ ensure_ecs_cluster
    \/ register_task_def
    \/ ecr_has_latest
    \/ create_or_update_service
    \/ create_or_update_service_wait
    \/ cmd_up_save
    \/ StartDown
    \/ cmd_down_load
    \/ cleanup_scale
    \/ cleanup_drain_wait
    \/ cmd_down_delete_service
    \/ cmd_down_load_balancer
    \/ cmd_down_target_group
    \/ cmd_down_task_defs
    \/ cmd_down_delete_cluster
    \/ cmd_down_check_cluster
    \/ cmd_down_delete_ecr
    \/ cmd_down_check_ecr
    \/ cmd_down_delete_logs
    \/ cmd_down_check_logs
    \/ cmd_down_delete_iam
    \/ cmd_down_check_iam
    \/ cmd_down_nuke_vpc
    \/ cmd_down_check_vpc
    \/ cmd_down_delete_bucket
    \/ cmd_down_save
    \/ TaskStarts
    \/ TaskStops

Spec == Init /\ [][Next]_vars

\* --------------------------------------------------- cmd_down on its own
\* `down` run on what earlier runs may have left in the account: the bucket,
\* registry, log group and role, the revisions 1..n of the family, the
\* service absent, idle or running, and the load balancer with its listener
\* and target group complete or in part.
DownClouds ==
    {[Cloud0 EXCEPT !.bucket = TRUE, !.repo = TRUE, !.logGroup = TRUE,
                    !.role = TRUE, !.policy = TRUE,
                    !.taskdefs = 1..n,
                    !.cluster = IF run >= 0 THEN "ACTIVE" ELSE "none",
                    !.service = IF run >= 0
                                THEN [status |-> "ACTIVE", desired |-> 1,
                                      running |-> run, td |-> 1, net |-> 1,
                                      tg |-> 1]
                                ELSE NoService,
                    !.lb = [arn |-> IF "lb" \in elb THEN 1 ELSE 0],
                    !.listener = IF elb = {"lb", "listener", "tg"} THEN 1 ELSE 0,
                    !.tg = IF "tg" \in elb THEN 1 ELSE 0] :
        n \in 0..MaxRevs, run \in {-1, 0, 1},
        elb \in {{}, {"lb"}, {"tg"}, {"lb", "tg"}, {"lb", "listener", "tg"}}}

DownInit ==
    /\ cmd = "none"
    /\ args = [no_wait |-> FALSE]
    /\ pc = "idle"
    /\ faults = 0
    /\ cloud \in DownClouds
    /\ manifest = NoManifest
    /\ loc = NoLoc
    /\ elapsed = 0
    /\ tries = 0
    /\ log = <<>>
    /\ out = {}
    /\ exc = "none"
    /\ manifest0 = NoManifest

DownNext ==
    \/ StartDown
    \/ cmd_down_load
    \/ cleanup_scale
    \/ cleanup_drain_wait
    \/ cmd_down_delete_service
    \/ cmd_down_load_balancer
    \/ cmd_down_target_group
    \/ cmd_down_task_defs
    \/ cmd_down_delete_cluster
    \/ cmd_down_check_cluster
    \/ cmd_down_delete_ecr
    \/ cmd_down_check_ecr
    \/ cmd_down_delete_logs
    \/ cmd_down_check_logs
    \/ cmd_down_delete_iam
    \/ cmd_down_check_iam
    \/ cmd_down_nuke_vpc
    \/ cmd_down_check_vpc
    \/ cmd_down_delete_bucket
    \/ cmd_down_save
    \/ TaskStops

DownSpec == DownInit /\ [][DownNext]_vars

\* ------------------------------------ cmd_down on an infra_info.json
\* The fields of infra_info.json that cmd_down uses, and those it reads into
\* a local variable it never uses (alb_dns and ecs_service it does not read).
NameFields == {"s3_bucket", "ecs_cluster", "log_group", "ecr_repo_url"}
IdFields ==
    {"vpc_id", "subnet_ids", "alb_arn", "alb_sg_id", "svc_sg_id", "task_def_arn",
     "iam_role_arn"}

\* What an infra_info.json written for the stack `n` with the network, load
\* balancer and revision `id` holds in field f.
FieldValue(f, n, id) ==
    CASE f = "s3_bucket" -> BucketName(n, Account)
      [] f = "ecs_cluster" -> n
      [] f = "log_group" -> LogGroupName(n)
      [] f = "ecr_repo_url" -> RepoUri(n)
      [] f = "vpc_id" -> id
      [] f = "subnet_ids" -> <<<<id, 1>>, <<id, 2>>>>
      [] f = "alb_arn" -> id
      [] f = "alb_sg_id" -> <<id, "alb_sg">>
      [] f = "svc_sg_id" -> <<id, "svc_sg">>
      [] f = "task_def_arn" -> id
      [] f = "iam_role_arn" -> RoleArn(n)
      [] OTHER -> "file"

\* The files cmd_down may find: any of the name fields present, written for
\* this stack or for another; the id fields absent, or those of this
\* stack's objects (1), or stale ones (2).
Manifests ==
    {[f \in {"kind"} \cup here \cup (IF ids = 0 THEN {} ELSE IdFields) |->
         IF f \in NameFields
         THEN FieldValue(f, IF f \in own THEN StackName ELSE "other", 0)
         ELSE FieldValue(f, IF ids = 1 THEN StackName ELSE "other", ids)] :
        here \in SUBSET NameFields, own \in SUBSET NameFields, ids \in 0..2}

\* The account of a stack that `up` completed, its task running.
StackCloud ==
    [Cloud0 EXCEPT !.bucket = TRUE, !.repo = TRUE, !.latest = TRUE,
                   !.logGroup = TRUE, !.role = TRUE, !.policy = TRUE,
                   !.vpcs = {VpcAfter(1, Len(VpcCalls))},
                   !.lb = [arn |-> 1], !.tg = 1, !.listener = 1,
                   !.cluster = "ACTIVE",
                   !.taskdefs = {1},
                   !.service = [status |-> "ACTIVE", desired |-> 1,
                                running |-> 1, td |-> 1, net |-> 1, tg |-> 1]]

\* No call raises but for what the cloud holds: the budget of injected
\* errors is spent.
ManifestInit ==
    /\ cmd = "none"
    /\ args = [no_wait |-> FALSE]
    /\ pc = "idle"
    /\ faults = MaxFaults
    /\ cloud = StackCloud
    /\ manifest \in Manifests
    /\ loc = NoLoc
    /\ elapsed = 0
    /\ tries = 0
    /\ log = <<>>
    /\ out = {}
    /\ exc = "none"
    /\ manifest0 = NoManifest

ManifestSpec == ManifestInit /\ [][DownNext]_vars

\* ------------------------------------ sagemaker.py: the notebook `down`
\* cmd_down of sagemaker.py on the same variables: cloud is the notebook's
\* status ("none": no such notebook) and whether the endpoint, an endpoint
\* configuration and a model of the stack exist; `elapsed` is
\* time.time() - start of wait_for_notebook_status; log holds, besides the
\* calls, every status a describe_notebook_instance returned.
NotebookStatuses ==
    {"none", "Pending", "InService", "Stopping", "Stopped", "Failed", "Updating"}
Saw(status) == Ev("saw", status)

\* Mutant: a handler `except Exception` in delete_sagemaker_notebook.
NotebookExcept_Exception(e) == "caught"

\* except ClientError as e: print(...) in delete_sagemaker_notebook
NotebookExcept(e) == IF e = "ClientError" THEN "caught" ELSE "raised"

\* wait_for_notebook_status's loop body after describe returned `status`
\* with t seconds elapsed
wait_for_notebook_status(status, target_status, t, timeout) ==
    IF status = target_status THEN "return"
    ELSE IF t > timeout THEN "raise" ELSE "sleep"

NotebookInit ==
    /\ cmd = "sagemaker_down"
    /\ args = [no_wait |-> FALSE]
    /\ pc = "nb_describe"
    /\ faults = 0
    /\ \E st \in NotebookStatuses, ep, cf, md \in BOOLEAN :
          cloud = [notebook |-> st, endpoint |-> ep, config |-> cf, model |-> md]
    /\ manifest = NoManifest
    /\ loc = NoLoc
    /\ elapsed = 0
    /\ tries = 0
    /\ log = <<>>
    /\ out = {}
    /\ exc = "none"
    /\ manifest0 = NoManifest

\* The exception e leaves the try-block of delete_sagemaker_notebook, lg
\* being the log so far: the handler prints and the function returns, or
\* the exception leaves cmd_down.
NotebookRaise(e, lg) ==
    IF NotebookExcept(e) = "caught"
    THEN /\ pc' = "ep_cleanup"
         /\ exc' = "none"
         /\ log' = Append(lg, End("delete_sagemaker_notebook"))
    ELSE /\ pc' = "failed"
         /\ exc' = e
         /\ log' = lg

\* desc = sm.describe_notebook_instance(..); status = desc[..]
delete_sagemaker_notebook_describe ==
    /\ pc = "nb_describe"
    /\ LET b == Append(log, Begin("delete_sagemaker_notebook"))
       IN  \/ /\ cloud.notebook # "none"
              /\ log' = Append(b, Saw(cloud.notebook))
              /\ pc' = IF cloud.notebook = "InService" THEN "nb_stop" ELSE "nb_delete"
              /\ UNCHANGED <<faults, exc>>
           \/ \* ResourceNotFound
              /\ cloud.notebook = "none"
              /\ NotebookRaise("ClientError",
                               Append(b, Failed("describe_notebook_instance")))
              /\ UNCHANGED faults
           \/ \E e \in ErrKinds :
                 /\ Fault
                 /\ NotebookRaise(e, Append(b, Failed("describe_notebook_instance")))
    /\ UNCHANGED <<cmd, args, cloud, manifest, loc, elapsed, tries, out, manifest0>>

\* sm.stop_notebook_instance(..): refused unless the notebook is InService
delete_sagemaker_notebook_stop ==
    /\ pc = "nb_stop"
    /\ LET c == Append(log, Call("stop_notebook_instance"))
       IN  \/ /\ cloud.notebook = "InService"
              /\ cloud' = [cloud EXCEPT !.notebook = "Stopping"]
              /\ log' = c
              /\ pc' = "nb_wait"
              /\ UNCHANGED <<faults, exc>>
           \/ /\ cloud.notebook # "InService"
              /\ cloud' = cloud
              /\ NotebookRaise("ClientError", Append(c, Failed("stop_notebook_instance")))
              /\ UNCHANGED faults
           \/ \E e \in ErrKinds :
                 /\ Fault
                 /\ cloud' = cloud
                 /\ NotebookRaise(e, Append(c, Failed("stop_notebook_instance")))
    /\ elapsed' = 0
    /\ UNCHANGED <<cmd, args, manifest, loc, tries, out, manifest0>>

\* wait_for_notebook_status(sm, notebook_name, "Stopped", timeout=600): one
\* turn of its loop
delete_sagemaker_notebook_wait ==
    /\ pc = "nb_wait"
    /\ \/ \E d \in ProbeTime(elapsed, NotebookInterval, NotebookTimeout) :
             LET r == wait_for_notebook_status(cloud.notebook, "Stopped",
                                               elapsed + d, NotebookTimeout)
                 seen == Append(log, Saw(cloud.notebook))
             IN  \/ /\ r = "return"
                    /\ pc' = "nb_delete"
                    /\ log' = seen
                    /\ elapsed' = 0
                    /\ UNCHANGED <<faults, exc>>
                 \/ /\ r = "sleep"
                    /\ elapsed' = elapsed + d + NotebookInterval
                    /\ log' = seen
                    /\ UNCHANGED <<pc, faults, exc>>
                 \/ /\ r = "raise"
                    /\ elapsed' = 0
                    /\ NotebookRaise("TimeoutError",
                                     Append(seen, Failed("wait_for_notebook_status")))
                    /\ UNCHANGED faults
       \/ \E e \in ErrKinds :
             /\ Fault
             /\ elapsed' = 0
             /\ NotebookRaise(e, Append(log, Failed("describe_notebook_instance")))
    /\ UNCHANGED <<cmd, args, cloud, manifest, loc, tries, out, manifest0>>

\* sm.delete_notebook_instance(..): refused unless the notebook is Stopped
\* or Failed
delete_sagemaker_notebook_delete ==
    /\ pc = "nb_delete"
    /\ LET c == Append(log, Call("delete_notebook_instance"))
       IN  \/ /\ cloud.notebook \in {"Stopped", "Failed"}
              /\ cloud' = [cloud EXCEPT !.notebook = "none"]
              /\ log' = Append(c, End("delete_sagemaker_notebook"))
              /\ pc' = "ep_cleanup"
              /\ UNCHANGED <<faults, exc>>
           \/ /\ cloud.notebook \notin {"Stopped", "Failed"}
              /\ cloud' = cloud
              /\ NotebookRaise("ClientError",
                               Append(c, Failed("delete_notebook_instance")))
              /\ UNCHANGED faults
           \/ \E e \in ErrKinds :
                 /\ Fault
                 /\ cloud' = cloud
                 /\ NotebookRaise(e, Append(c, Failed("delete_notebook_instance")))
    /\ UNCHANGED <<cmd, args, manifest, loc, elapsed, tries, out, manifest0>>

\* delete_endpoint_resources: the endpoint, the configurations, the models,
\* each in its try ... except ClientError; k: the block in which an error
\* other than ClientError is raised (0: in none)
delete_endpoint_resources ==
    /\ pc = "ep_cleanup"
    /\ \E k \in 0..3 :
          LET calls == <<"delete_endpoint", "delete_endpoint_config", "delete_model">>
              there == <<cloud.endpoint, cloud.config, cloud.model>>
              upto == IF k = 0 THEN 3 ELSE k
              issued(i) == IF i = 1 \/ there[i] THEN <<Call(calls[i])>> ELSE <<>>
              failed(i) == IF ~there[i] /\ i = 1 /\ k # 1 THEN <<Failed(calls[i])>> ELSE <<>>
              lg == <<Begin("delete_endpoint_resources")>>
                      \o (IF upto >= 1 THEN issued(1) \o failed(1) ELSE <<>>)
                      \o (IF upto >= 2 THEN issued(2) ELSE <<>>)
                      \o (IF upto >= 3 THEN issued(3) ELSE <<>>)
              gone(i) == i < k \/ k = 0
          IN  /\ k > 0 => Fault /\ (k = 1 \/ there[k])
              /\ k = 0 => faults' = faults
              /\ cloud' = [cloud EXCEPT !.endpoint = @ /\ ~gone(1),
                                        !.config = @ /\ ~gone(2),
                                        !.model = @ /\ ~gone(3)]
              /\ log' = log \o lg \o (IF k = 0
                                       THEN <<End("delete_endpoint_resources")>>
                                       ELSE <<Failed(calls[k])>>)
              /\ pc' = IF k = 0 THEN "done" ELSE "failed"
              /\ exc' = IF k = 0 THEN "none" ELSE "Other"
    /\ UNCHANGED <<cmd, args, manifest, loc, elapsed, tries, out, manifest0>>

\* SageMaker completes a transition of the notebook.
NotebookSettles ==
    /\ pc \notin {"done", "failed"}
    /\ cloud.notebook \in {"Pending", "Stopping", "Updating"}
    /\ cloud' = [cloud EXCEPT !.notebook =
                     IF @ = "Stopping" THEN "Stopped" ELSE "InService"]
    /\ UNCHANGED <<cmd, args, pc, faults, manifest, loc, elapsed, tries, log,
                   out, exc, manifest0>>

NotebookNext ==
    \/ delete_sagemaker_notebook_describe
    \/ delete_sagemaker_notebook_stop
    \/ delete_sagemaker_notebook_wait
    \/ delete_sagemaker_notebook_delete
    \/ delete_endpoint_resources
    \/ NotebookSettles

NotebookSpec == NotebookInit /\ [][NotebookNext]_vars

\* ------------------------------------------------- wait_until on its own
\* wait_until(fn, desc, timeout, interval) run statement by statement with
\* any fn: `elapsed` is time.time() - start, `tries` the calls of fn, `log`
\* the calls of fn and of time.sleep with the time at which each returned.
Probed(ok, t) == [k |-> "probe", n |-> ok, t |-> t]
Slept(i, t) == [k |-> "sleep", n |-> i, t |-> t]

\* start = time.time()
WaitInit ==
    /\ cmd = "wait_until"
    /\ \E to \in 0..MaxWaitTimeout, iv \in 1..MaxWaitInterval :
          args = [timeout |-> to, interval |-> iv]
    /\ pc = "w_fn"
    /\ faults = 0
    /\ cloud = Cloud0
    /\ manifest = NoManifest
    /\ loc = NoLoc
    /\ elapsed = 0
    /\ tries = 0
    /\ log = <<>>
    /\ out = {}
    /\ exc = "none"
    /\ manifest0 = NoManifest

\* A wait_until whose sleeps grow with the probes made.
wait_until_sleep_Backoff ==
    /\ pc = "w_sleep"
    /\ elapsed' = elapsed + args.interval * tries
    /\ log' = Append(log, Slept(args.interval * tries, elapsed'))
    /\ pc' = "w_fn"
    /\ UNCHANGED <<cmd, args, faults, cloud, manifest, loc, tries, out, exc,
                   manifest0>>

\* if fn(): return / if time.time() - start > timeout: raise TimeoutError
\* fn() answers ok after d seconds.
wait_until_probe ==
    /\ pc = "w_fn"
    /\ \E ok \in BOOLEAN, d \in 0..MaxFnTime :
          LET t == elapsed + d
              r == wait_until(ok, t, args.timeout)
          IN  /\ elapsed' = t
              /\ log' = Append(log, Probed(ok, t))
              /\ pc' = CASE r = "return" -> "w_returned"
                          [] r = "raise" -> "w_raised"
                          [] OTHER -> "w_sleep"
              /\ exc' = IF r = "raise" THEN "TimeoutError" ELSE "none"
    /\ tries' = tries + 1
    /\ UNCHANGED <<cmd, args, faults, cloud, manifest, loc, out, manifest0>>

\* time.sleep(interval)
wait_until_sleep ==
    /\ pc = "w_sleep"
    /\ elapsed' = elapsed + args.interval
    /\ log' = Append(log, Slept(args.interval, elapsed'))
    /\ pc' = "w_fn"
    /\ UNCHANGED <<cmd, args, faults, cloud, manifest, loc, tries, out, exc,
                   manifest0>>

WaitNext ==
    \/ wait_until_probe
    \/ wait_until_sleep

WaitSpec == WaitInit /\ [][WaitNext]_vars

\* ============================================================ properties
Range(s) == {s[i] : i \in DOMAIN s}
Max(S) == CHOOSE x \in S : \A y \in S : y <= x
Begins(l) == {i \in DOMAIN l : l[i].k = "begin"}
\* the event e stands in l before position j
Before(l, e, j) == \E i \in DOMAIN l : i < j /\ l[i] = e

\* The place of a provisioner of cmd_up in the order Network, LoadBalancer,
\* {Registry, LogSink, Identity}, Compute, Manifest (0: the bucket).
UpRank(n) ==
    CASE n = "ensure_s3_bucket" -> 0
      [] n = "create_vpc_stack" -> 1
      [] n = "create_alb_stack" -> 2
      [] n \in {"ensure_ecr_repo", "push_image_to_ecr", "ensure_log_group",
                "ensure_iam"} -> 3
      [] n \in {"ensure_ecs_cluster", "register_task_def", "ecr_has_latest",
                "create_or_update_service"} -> 4
      [] n = "save_infra_json" -> 5
      [] OTHER -> 6

\* C1: in a run of `up` the provisioners start in the order Network,
\* LoadBalancer, {Registry, LogSink, Identity}, Compute, Manifest write, none
\* starts twice, each has ended (its wait included) before the next starts,
\* and a run that ends well has gone through all of them.
C1_UpStepOrder ==
    cmd = "up" =>
        LET b == Begins(log)
        IN  /\ \A i, j \in b :
                  i < j => /\ UpRank(log[i].n) <= UpRank(log[j].n)
                           /\ log[i].n # log[j].n
                           /\ \E k \in (i + 1)..(j - 1) : log[k] = End(log[i].n)
            /\ pc \in {"up_alb_wait", "up_service_wait"} =>
                  /\ b # {}
                  /\ End(log[Max(b)].n) \notin Range(log)
            /\ pc = "done" => {UpRank(log[i].n) : i \in b} = 0..5

\* C1, witness: a run of `up` that waited for the service has ended well.
C1_Witness ==
    /\ cmd = "up"
    /\ pc = "done"
    /\ ~args.no_wait
    /\ End("create_or_update_service") \in Range(log)

\* C2: in a run of `up`, register_task_def and create_or_update_service are
\* invoked only after create_vpc_stack, create_alb_stack, ensure_ecr_repo,
\* ensure_log_group and ensure_iam have returned, and the records they
\* returned are bound, none of them absent.
C2_ComputeAfterAll ==
    cmd = "up" =>
        \A j \in Begins(log) :
            log[j].n \in {"register_task_def", "create_or_update_service"} =>
                /\ \A n \in {"create_vpc_stack", "create_alb_stack", "ensure_ecr_repo",
                             "ensure_log_group", "ensure_iam"} :
                      Before(log, End(n), j)
                /\ {"net", "alb", "repo", "lg", "exec_arn"} \subseteq loc.set
                /\ loc.vpc_id # 0
                /\ loc.lb_arn # 0
                /\ loc.tg_arn # 0

\* C2, witness: create_or_update_service has been invoked.
C2_Witness ==
    /\ cmd = "up"
    /\ Begin("create_or_update_service") \in Range(log)
    /\ pc = "up_service_wait"

\* C3, as the spec states it: once `down` has begun its teardown steps, no
\* exception leaves it, whatever a call raises.
C3_DownNeverAborts ==
    ~(/\ cmd = "down"
      /\ pc = "failed"
      /\ Begin("cleanup_ecs_elb") \in Range(log))

\* The place of a teardown step in cmd_down.
DownRank(n) ==
    CASE n = "load_infra_json" -> 0
      [] n = "cleanup_ecs_elb" -> 1
      [] n = "deregister_task_defs" -> 2
      [] n = "delete_cluster" -> 3
      [] n = "delete_ecr_repo" -> 4
      [] n = "delete_log_group" -> 5
      [] n = "delete_iam" -> 6
      [] n = "nuke_vpc" -> 7
      [] n = "delete_s3_bucket" -> 8
      [] n = "save_infra_json" -> 9
      [] OTHER -> 10

\* The calls that delete the service, the load balancer and what hangs on it.
ElbCalls ==
    {"update_service", "delete_service", "delete_listener", "delete_load_balancer",
     "delete_target_group"}

\* C4, amended: in a run of `down` the steps start in the order manifest
\* read, cleanup_ecs_elb (the service, then the listeners, the load balancer
\* and the target group), task definitions, cluster, registry, log group,
\* execution role, network, bucket, manifest write; so every call that
\* deletes the load balancer is issued inside cleanup_ecs_elb, before the
\* registry, log group and role teardowns start.
C4_DownStepOrder ==
    cmd = "down" =>
        LET b == Begins(log)
        IN  /\ \A i, j \in b : i < j => DownRank(log[i].n) < DownRank(log[j].n)
            /\ \A i \in DOMAIN log :
                  (log[i].k = "call" /\ log[i].n \in ElbCalls) =>
                      /\ Before(log, Begin("cleanup_ecs_elb"), i)
                      /\ \A j \in b : j < i => DownRank(log[j].n) <= 1
            /\ pc = "done" => {DownRank(log[i].n) : i \in b} = 0..9

\* C4, witness: a `down` that deleted a load balancer has ended.
C4_Witness ==
    /\ cmd = "down"
    /\ pc = "done"
    /\ Call("delete_load_balancer") \in Range(log)
    /\ Failed("delete_load_balancer") \notin Range(log)
    /\ Begin("delete_iam") \in Range(log)

\* C4, as the spec states it: no call that deletes the load balancer is
\* issued before the registry, log group and role teardowns have started.
C4_LbAfterRegistryLogsIdentity ==
    cmd = "down" =>
        \A i \in DOMAIN log :
            log[i] = Call("delete_load_balancer") =>
                \A n \in {"delete_ecr_repo", "delete_log_group", "delete_iam"} :
                    Before(log, Begin(n), i)

\* The calls cmd_up issues that change the cloud: none deletes.
UpCalls ==
    Range(VpcCalls) \cup Range(AlbCalls) \cup
    {"authorize_security_group_egress",
     "create_bucket", "create_repository", "docker_push", "create_log_group",
     "put_retention_policy", "create_role", "attach_role_policy", "create_cluster",
     "register_task_definition", "create_service", "update_service"}

\* What the provisioner n made is in the cloud c, as the locals l name it.
Remains(n, c, l) ==
    CASE n = "ensure_s3_bucket" -> c.bucket
      [] n = "create_vpc_stack" ->
            [id |-> l.vpc_id, tagged |-> TRUE, parts |-> VpcPartSet] \in c.vpcs
      [] n = "create_alb_stack" ->
            /\ l.lb_arn # 0
            /\ c.lb.arn = l.lb_arn /\ c.tg = l.tg_arn /\ c.listener = l.listener_arn
      [] n = "ensure_ecr_repo" -> c.repo
      [] n = "ensure_log_group" -> c.logGroup
      [] n = "ensure_iam" -> c.role
      [] n = "ensure_ecs_cluster" -> c.cluster = "ACTIVE"
      [] n = "register_task_def" -> l.task_def_arn \in c.taskdefs
      [] n = "create_or_update_service" -> ServiceExists(c)
      [] OTHER -> TRUE

\* C5: when an exception has ended a run of `up`, the provisioner that raised
\* is the last one invoked (it logged its calls and at most the duplicate
\* egress rule it swallowed), the run has issued no call other than the
\* creating calls of cmd_up (nothing is deleted), and what every provisioner
\* that returned had made is still in the cloud.
C5_UpFailureLeavesAll ==
    (cmd = "up" /\ pc = "failed") =>
        /\ LET b == Begins(log)
           IN  b # {} =>
                  \A k \in (Max(b) + 1)..Len(log) :
                     \/ log[k].k = "call"
                     \/ log[k] = Failed("authorize_security_group_egress")
        /\ \A i \in DOMAIN log : log[i].k = "call" => log[i].n \in UpCalls
        /\ \A i \in DOMAIN log :
              log[i].k = "end" => Remains(log[i].n, cloud, loc)

\* C5, witness: an injected error ended `up` in the Compute steps, after the
\* network, the load balancer, the registry, the log group and the role.
C5_Witness ==
    /\ cmd = "up"
    /\ pc = "failed"
    /\ exc \in ErrKinds
    /\ End("ensure_iam") \in Range(log)
    /\ Begin("register_task_def") \in Range(log)

\* The fields of infra_info whose value the provisioner n returned.
FieldsOf(n) ==
    CASE n = "ensure_s3_bucket" -> {"s3_bucket"}
      [] n = "create_vpc_stack" -> {"vpc_id", "subnet_ids", "alb_sg_id", "svc_sg_id"}
      [] n = "create_alb_stack" -> {"alb_dns", "alb_arn"}
      [] n = "ensure_ecr_repo" -> {"ecr_repo_url"}
      [] n = "ensure_log_group" -> {"log_group"}
      [] n = "ensure_iam" -> {"iam_role_arn"}
      [] n = "ensure_ecs_cluster" -> {"ecs_cluster"}
      [] n = "register_task_def" -> {"task_def_arn"}
      [] OTHER -> {}

\* C6, as the spec states it: when an exception has ended a run of `up`, the
\* run has put out every identifier that the provisioners that returned had
\* handed back.
C6_AbortSurfacesIds ==
    (cmd = "up" /\ pc = "failed") =>
        \A i \in DOMAIN log : log[i].k = "end" => FieldsOf(log[i].n) \subseteq out

\* The provisioners every run of cmd_up that ends well has gone through.
UpProvisioners ==
    {"ensure_s3_bucket", "create_vpc_stack", "create_alb_stack", "ensure_ecr_repo",
     "ensure_log_group", "ensure_iam", "ensure_ecs_cluster", "register_task_def",
     "create_or_update_service"}

\* C7: a run of `up` leaves infra_info.json as it found it until its last
\* statement, so a run that an exception ended has not changed it; the run
\* that ends well has written infra_info after every provisioner returned.
C7_ManifestOnlyAtEnd ==
    cmd = "up" =>
        /\ pc # "done" => manifest = manifest0
        /\ pc = "done" =>
              /\ manifest = infra_info(loc)
              /\ \A n \in UpProvisioners : End(n) \in Range(log)

\* C7, witness: a run of `up` that found a manifest of an earlier run and
\* made a network has failed.
C7_Witness ==
    /\ cmd = "up"
    /\ pc = "failed"
    /\ manifest0.kind = "up"
    /\ End("create_vpc_stack") \in Range(log)
    /\ Cardinality(cloud.vpcs) = 2

\* C8, as the spec states it: in a run of `up` that finds the manifest of an
\* earlier run, with no injected error, create_alb_stack returns, and returns
\* the load balancer the manifest names.
C8_SecondUpSameLb ==
    (/\ cmd = "up"
     /\ manifest0.kind = "up"
     /\ faults = 0
     /\ Begin("create_alb_stack") \in Range(log)
     /\ pc \notin {"up_alb", "up_alb_wait"})
        => /\ End("create_alb_stack") \in Range(log)
           /\ loc.lb_arn = manifest0.alb_arn

\* C9, as the spec states it: a run of `up` that finds a manifest with a
\* network in it does not invoke create_vpc_stack.
C9_NoSecondNetwork ==
    (cmd = "up" /\ "vpc_id" \in DOMAIN manifest0) =>
        Begin("create_vpc_stack") \notin Range(log)

\* Nothing of the stack is left in the cloud c.
NoStackResource(c) ==
    /\ TaggedVpcs(c) = {}
    /\ c.lb = NoLb /\ c.tg = 0 /\ c.listener = 0
    /\ ~c.repo /\ ~c.logGroup /\ ~c.role
    /\ c.cluster # "ACTIVE"
    /\ ~ServiceExists(c)
    /\ c.taskdefs = {}

\* C10, as the spec states it: a `down` that read the manifest of a
\* successful `up` and in which no call failed leaves nothing of the stack.
C10_RoundTrip ==
    (/\ cmd = "down"
     /\ pc = "done"
     /\ manifest0.kind = "up"
     /\ \A i \in DOMAIN log : log[i].k # "fail")
        => NoStackResource(cloud)

\* C11, as the spec states it: a run of `down` that found no infra_info.json
\* works with cluster = name, log group = "/ecs/" + name and repository =
\* name, is not ended by an exception, and at its end has gone through every
\* teardown step and has written a report with ok = true.
C11_DownWithoutManifest ==
    (cmd = "down" /\ manifest0 = NoManifest /\ pc # "dn_load") =>
        /\ loc.cluster = StackName
        /\ loc.log_group = LogGroupName(StackName)
        /\ Begin("delete_ecr_repo") \in Range(log) => loc.repo_name = StackName
        /\ pc # "failed"
        /\ pc = "done" =>
              /\ {DownRank(log[i].n) : i \in Begins(log)} = 0..9
              /\ manifest = down_info
              /\ manifest.ok

\* What the deleting call n of cmd_down is to remove is still in the cloud c.
StillThere(n, c) ==
    CASE n = "delete_service" -> ServiceExists(c)
      [] n = "delete_load_balancer" -> c.lb # NoLb
      [] n = "delete_target_group" -> c.tg # 0
      [] n = "deregister_task_definition" -> c.taskdefs # {}
      [] n = "delete_cluster" -> c.cluster = "ACTIVE"
      [] n = "delete_repository" -> c.repo
      [] n = "delete_log_group" -> c.logGroup
      [] n = "delete_role" -> c.role
      [] n = "delete_vpc" -> TaggedVpcs(c) # {}
      [] n = "delete_bucket" -> c.bucket
      [] OTHER -> FALSE

\* C12, as the spec states it: when a run of `down` has ended in which a
\* deleting call failed and left its resource in place, the report it wrote
\* tells of a failure.
C12_ReportTellsFailure ==
    (/\ cmd = "down"
     /\ pc = "done"
     /\ \E i \in DOMAIN log : log[i].k = "fail" /\ StillThere(log[i].n, cloud))
        => ~manifest.ok

\* C13: when a run of `up` has ended well, infra_info.json holds every field
\* of infra_info, each with the value this run's step returned: the network
\* this run made (not the one an earlier manifest named) with its two
\* subnets and two security groups, the load balancer now in the cloud with
\* its DNS name, the repository URI, the revision this run registered and
\* gave the service, the log group and role names, and the stack's name as
\* cluster and as service.
C13_ManifestHoldsIds ==
    (cmd = "up" /\ pc = "done") =>
        /\ InfoFields \subseteq DOMAIN manifest
        /\ manifest.vpc_id = loc.vpc_id
        /\ [id |-> manifest.vpc_id, tagged |-> TRUE, parts |-> VpcPartSet]
              \in cloud.vpcs
        /\ manifest0.kind = "up" => manifest.vpc_id # manifest0.vpc_id
        /\ manifest.subnet_ids = <<<<loc.vpc_id, 1>>, <<loc.vpc_id, 2>>>>
        /\ manifest.alb_sg_id = <<loc.vpc_id, "alb_sg">>
        /\ manifest.svc_sg_id = <<loc.vpc_id, "svc_sg">>
        /\ manifest.alb_arn # 0
        /\ manifest.alb_arn = cloud.lb.arn
        /\ manifest.alb_dns = cloud.lb.arn
        /\ manifest.ecr_repo_url = RepoUri(StackName)
        /\ RepoNameOf(manifest.ecr_repo_url) = StackName
        /\ manifest.ecs_cluster = StackName
        /\ manifest.ecs_service = StackName
        /\ manifest.task_def_arn \in cloud.taskdefs
        /\ manifest.task_def_arn = cloud.service.td
        /\ manifest.log_group = LogGroupName(StackName)
        /\ manifest.iam_role_arn = RoleArn(StackName)
        /\ manifest.s3_bucket = BucketName(StackName, Account)

\* C13, witness: a run of `up` that found the manifest of an earlier run has
\* ended well with a second network.
C13_Witness ==
    /\ cmd = "up"
    /\ pc = "done"
    /\ manifest0.kind = "up"
    /\ manifest.vpc_id = 2

\* C14: a wait_until that has raised TimeoutError did so at a probe that
\* answered false with more than `timeout` seconds elapsed; a false probe
\* with more than `timeout` elapsed is the last one (it raised); and after a
\* false probe with `timeout` seconds or less elapsed it sleeps.
C14_TimeoutOnlyAfterBudget ==
    LET n == Len(log)
    IN  /\ pc = "w_raised" =>
              /\ n > 0 /\ log[n].k = "probe" /\ ~log[n].n
              /\ log[n].t > args.timeout
              /\ exc = "TimeoutError"
        /\ \A i \in 1..n :
              (log[i].k = "probe" /\ ~log[i].n) =>
                  IF log[i].t > args.timeout
                  THEN i = n /\ pc = "w_raised"
                  ELSE (i = n => pc = "w_sleep") /\ (i < n => log[i + 1].k = "sleep")

\* C14, witness: wait_until raised after a probe that ended exactly when the
\* budget did went on to sleep.
C14_Witness ==
    /\ pc = "w_raised"
    /\ \E i \in 1..Len(log) :
          log[i].k = "probe" /\ log[i].t = args.timeout /\ args.timeout > 0

\* C15: wait_until has returned exactly when a probe answered true; a probe
\* that answered true is the last call it made, and so is the probe at
\* which it raised; the calls alternate probe, sleep, probe, ..., each
\* sleep is time.sleep(interval) and `tries` counts the probes.
C15_ProbeUntilTrue ==
    LET n == Len(log)
        probes == {i \in 1..n : log[i].k = "probe"}
    IN  /\ (pc = "w_returned") = (\E i \in probes : log[i].n)
        /\ \A i \in probes : log[i].n => i = n
        /\ pc \in {"w_returned", "w_raised"} => n \in probes
        /\ \A i \in 1..n : (i \in probes) = (i % 2 = 1)
        /\ \A i \in (1..n) \ probes :
              /\ log[i].n = args.interval
              /\ log[i].t = log[i - 1].t + args.interval
        /\ tries = Cardinality(probes)

\* C15, witness: wait_until returned at its third probe.
C15_Witness ==
    /\ pc = "w_returned"
    /\ tries = 3
    /\ Len(log) = 5

\* C16, as the spec states it: no run of `up` performs an image push:
\* push_image_to_ecr is not invoked and no docker push is issued.
C16_UpNeverPushes ==
    cmd = "up" =>
        /\ Call("docker_push") \notin Range(log)
        /\ Begin("push_image_to_ecr") \notin Range(log)

\* C17: when cmd_up asks for the image tagged latest and the registry has
\* none, and no other error is raised in that step, the answer is False, the
\* warning is printed, the run is not ended and goes on to
\* create_or_update_service, which is invoked next.
C17_NoImageNoAbort ==
    [][/\ (/\ pc = "up_haslatest"
           /\ pc' # pc
           /\ ~(cloud.repo /\ cloud.latest)
           /\ faults' = faults)
          => /\ pc' = "up_service"
             /\ ~loc'.has_latest
             /\ End("ecr_has_latest") \in Range(log')
             /\ "WARN no latest image" \in out'
       /\ (pc = "up_service" /\ pc' # pc)
          => Begin("create_or_update_service") \in Range(log')]_vars

\* C17, witness: a run of `up` found no image tagged latest, warned and has
\* created the service.
C17_Witness ==
    /\ cmd = "up"
    /\ ~cloud.latest
    /\ ~loc.has_latest
    /\ "WARN no latest image" \in out
    /\ Call("create_service") \in Range(log)
    /\ pc = "up_service_wait"

\* C18, as the spec states it: a TimeoutError of wait_until ends a run of
\* `up` at the wait that raised it, with nothing invoked after; in a run of
\* `down` whose drain wait timed out, delete_service is issued next and the
\* run is not ended before it has gone through every later teardown step.
C18_TimeoutFatalOnlyInUp ==
    /\ (cmd = "up" /\ exc = "TimeoutError") =>
          /\ pc = "failed"
          /\ LET b == Begins(log)
             IN  /\ b # {}
                 /\ log[Max(b)].n \in {"create_alb_stack", "create_or_update_service"}
                 /\ End(log[Max(b)].n) \notin Range(log)
    /\ (cmd = "down" /\ Failed("wait_until") \in Range(log)) =>
          /\ exc # "TimeoutError"
          /\ pc # "dn_delsvc" => Call("delete_service") \in Range(log)
          /\ pc # "failed"
          /\ pc = "done" => {DownRank(log[i].n) : i \in Begins(log)} = 0..9

\* C19: when a run of `down` has ended, infra_info.json holds the report of
\* that run and none of the fields that `up` writes.
C19_ManifestCleared ==
    (cmd = "down" /\ pc = "done") =>
        /\ DOMAIN manifest \cap InfoFields = {}
        /\ manifest = down_info

\* C19, witness: a run of `down` that read the manifest of an `up` has ended.
C19_Witness ==
    /\ cmd = "down"
    /\ pc = "done"
    /\ InfoFields \subseteq DOMAIN manifest0
    /\ manifest # manifest0

C21_RoleHasPolicy ==
    (cmd = "up" /\ End("ensure_iam") \in Range(log)) =>
        /\ cloud.role
        /\ cloud.policy

\* The events a step appended to the log.
Appended(l, m) == SubSeq(m, Len(l) + 1, Len(m))
\* the mutating calls among the events s
CallsIn(s) == {i \in DOMAIN s : s[i].k = "call"}

\* C22: an invocation of create_or_update_service issues at most one
\* mutating call, and exactly one when no call fails: update_service when
\* the service exists with a status other than INACTIVE, and then the
\* service keeps its network and target group and gets the new task
\* definition and desiredCount 1; create_service otherwise, with the task
\* definition, desiredCount 1, the network and the target group of this run.
C22_OneServiceCall ==
    [][(pc = "up_service" /\ pc' # pc) =>
          LET s == Appended(log, log')
              there == cloud.service.status # "none"
          IN  /\ Cardinality(CallsIn(s)) <= 1
              /\ \A i \in CallsIn(s) :
                    s[i].n = IF there THEN "update_service" ELSE "create_service"
              /\ faults' = faults =>
                    /\ Cardinality(CallsIn(s)) = 1
                    /\ cloud'.service.status = "ACTIVE"
                    /\ cloud'.service.desired = 1
                    /\ cloud'.service.td = loc.task_def_arn
                    /\ IF there
                       THEN /\ cloud'.service.net = cloud.service.net
                            /\ cloud'.service.tg = cloud.service.tg
                            /\ cloud'.service.running = cloud.service.running
                       ELSE /\ cloud'.service.net = loc.vpc_id
                            /\ cloud'.service.tg = loc.tg_arn
                            /\ cloud'.service.running = 0
              /\ faults' # faults => cloud' = cloud /\ pc' = "failed"]_vars

\* C22, witness: a run of `up` has updated the service an earlier run made.
C22_Witness ==
    /\ cmd = "up"
    /\ Call("update_service") \in Range(log)
    /\ Call("create_service") \notin Range(log)
    /\ cloud.service.status = "ACTIVE"
    /\ cloud.service.td = loc.task_def_arn
    /\ cloud.service.net # loc.vpc_id

\* C23: with wait requested, create_or_update_service goes from its call to
\* the wait and returns from the wait only at a probe that found
\* runningCount = desiredCount and runningCount >= 1; with --no-wait it
\* returns right after its call and the run never stands at the wait.
C23_ReturnsWhenStable ==
    [][/\ (pc = "up_service_wait" /\ pc' \notin {pc, "failed"}) =>
             /\ ~args.no_wait
             /\ cloud.service.running >= 1
             /\ cloud.service.running = cloud.service.desired
             /\ cloud' = cloud
             /\ Appended(log, log') = <<End("create_or_update_service")>>
             /\ pc' = "up_save"
       /\ (pc = "up_service" /\ pc' \notin {pc, "failed"}) =>
             IF args.no_wait
             THEN /\ pc' = "up_save"
                  /\ log'[Len(log')] = End("create_or_update_service")
             ELSE /\ pc' = "up_service_wait"
                  /\ End("create_or_update_service") \notin Range(log')
       /\ (cmd = "up" /\ args.no_wait) => pc' # "up_service_wait"]_vars

\* C23, witness: a run of `up` that waited has returned from
\* create_or_update_service with the task running.
C23_Witness ==
    /\ cmd = "up"
    /\ ~args.no_wait
    /\ pc = "up_save"
    /\ cloud.service.running = 1
    /\ cloud.service.desired = 1

\* C24: ensure_ecs_cluster issues create_cluster only when the cluster of
\* that name is not ACTIVE, and always then unless a call fails; when it
\* returns, the cluster is ACTIVE and the name it hands back is the stack's.
C24_ClusterCreatedIfMissing ==
    [][(pc = "up_cluster" /\ pc' # pc) =>
          LET s == Appended(log, log')
              created == Call("create_cluster") \in Range(s)
          IN  /\ created => cloud.cluster # "ACTIVE"
              /\ Cardinality(CallsIn(s)) <= 1
              /\ faults' = faults =>
                    /\ created = (cloud.cluster # "ACTIVE")
                    /\ cloud'.cluster = "ACTIVE"
                    /\ "cluster" \in loc'.set
                    /\ loc'.cluster = StackName
                    /\ pc' = "up_taskdef"
              /\ faults' # faults => pc' = "failed" /\ cloud' = cloud]_vars

\* C24, witness: a run of `up` found the cluster ACTIVE and created none.
C24_Witness ==
    /\ cmd = "up"
    /\ End("ensure_ecs_cluster") \in Range(log)
    /\ Call("create_cluster") \notin Range(log)
    /\ cloud.cluster = "ACTIVE"

\* The positions of event e in log l, and "every e comes before every g".
Pos(l, e) == {i \in DOMAIN l : l[i] = e}
AllBefore(l, e, g) == \A i \in Pos(l, e), j \in Pos(l, g) : i < j

\* C25: when deregister_task_defs is over (its listing having succeeded),
\* the run of `down` has issued update_service before delete_service
\* before every deregister_task_definition, delete_service also after a
\* failed scale-down or drain wait, and one deregister_task_definition for
\* each ACTIVE revision even when one of them failed.
C25_ComputeTeardown ==
    [][(/\ pc = "dn_taskdefs"
        /\ pc' # pc
        /\ Failed("list_task_definitions") \notin Range(log')) =>
          /\ AllBefore(log', Call("update_service"), Call("delete_service"))
          /\ AllBefore(log', Call("delete_service"),
                       Call("deregister_task_definition"))
          /\ Call("update_service") \in Range(log')
          /\ Call("delete_service") \in Range(log')
          /\ Cardinality(Pos(log', Call("deregister_task_definition")))
                = Cardinality(cloud.taskdefs)]_vars

\* C25, ClientError only: the same with every failed call of the run
\* raising ClientError.
C25_ClientErrorOnly ==
    [][(/\ pc = "dn_taskdefs"
        /\ pc' # pc
        /\ exc' # "Other"
        /\ Failed("list_task_definitions") \notin Range(log')) =>
          /\ AllBefore(log', Call("update_service"), Call("delete_service"))
          /\ AllBefore(log', Call("delete_service"),
                       Call("deregister_task_definition"))
          /\ Call("delete_service") \in Range(log')
          /\ Cardinality(Pos(log', Call("deregister_task_definition")))
                = Cardinality(cloud.taskdefs)
          /\ cloud'.taskdefs \subseteq cloud.taskdefs
          /\ Cardinality(cloud'.taskdefs) <= 1]_vars

\* What C26 states of the step of cleanup_ecs_elb that starts at p and
\* appended s to the log.  `all`: for every failure; otherwise for the
\* failures that raise ClientError.
LbTeardown(p, s, all) ==
    LET said(e) == e \in Range(s)
        found(n) == ~said(Failed(n))
    IN  /\ p = "dn_lb" =>
              /\ AllBefore(s, Call("delete_listener"), Call("delete_load_balancer"))
              /\ said(Call("delete_listener")) => cloud.listener # 0
              /\ said(Call("delete_load_balancer")) => cloud.lb # NoLb
              /\ (cloud.lb # NoLb /\ found("describe_load_balancers")) =>
                    /\ (cloud.listener # 0 /\ found("describe_listeners")) =>
                           said(Call("delete_listener"))
                    /\ (all \/ exc' # "Other") =>
                           /\ said(Call("delete_load_balancer"))
                           /\ pc' = "dn_tg"
              /\ (cloud.lb = NoLb /\ found("describe_load_balancers")) =>
                    pc' = "dn_tg"
        /\ p = "dn_tg" =>
              /\ said(Call("delete_target_group")) => cloud.tg # 0
              /\ (cloud.tg # 0 /\ found("describe_target_groups")) =>
                    said(Call("delete_target_group"))

\* C26: the load-balancer teardown deletes the listeners before the load
\* balancer <name>-alb and then the target group <name>-tg; the load
\* balancer's deletion is issued whenever it was found, also after a failed
\* describe_listeners or delete_listener, and the target group's deletion
\* whenever it was found, also when the load balancer is absent or its
\* deletion failed.
C26_LbTeardownIndependent ==
    [][(pc \in {"dn_lb", "dn_tg"} /\ pc' # pc) =>
          LbTeardown(pc, Appended(log, log'), TRUE)]_vars

\* C26, ClientError only: the same when the failed call raised ClientError.
C26_ClientErrorOnly ==
    [][(pc \in {"dn_lb", "dn_tg"} /\ pc' # pc) =>
          LbTeardown(pc, Appended(log, log'), FALSE)]_vars

\* The deleting calls of nuke_vpc for the parts of a network, in the order
\* of the source, and the describe calls it makes outside any try.
NukeOrder ==
    <<"detach_internet_gateway", "delete_internet_gateway",
      "disassociate_route_table", "delete_route_table", "delete_subnet",
      "delete_security_group", "delete_vpc">>
NukeReads ==
    {"describe_vpcs", "describe_network_interfaces", "describe_internet_gateways",
     "describe_route_tables", "describe_subnets", "describe_security_groups"}

\* What C27 states of a run of nuke_vpc that appended s to the log.  `all`:
\* for every failure; otherwise for the failures that raise ClientError.
NetworkTeardown(s, all) ==
    LET n(name) == Cardinality(Pos(s, Call(name)))
        has(v, parts) == Cardinality(v.parts \cap parts)
    IN  /\ \A i, j \in DOMAIN NukeOrder :
               i < j => AllBefore(s, Call(NukeOrder[i]), Call(NukeOrder[j]))
        /\ TaggedVpcs(cloud) = {} => CallsIn(s) = {}
        /\ (/\ TaggedVpcs(cloud) # {}
            /\ \A r \in NukeReads : Failed(r) \notin Range(s)
            /\ all \/ exc' # "Other") =>
               \E v \in TaggedVpcs(cloud) :
                  /\ n("detach_internet_gateway") = has(v, {"igw"})
                  /\ n("delete_internet_gateway") = has(v, {"igw"})
                  /\ n("disassociate_route_table") = has(v, {"rt"})
                  /\ n("delete_route_table") = has(v, {"rt"})
                  /\ n("delete_subnet") = has(v, {"sn1", "sn2"})
                  /\ n("delete_security_group") = has(v, {"alb_sg", "svc_sg"})
                  /\ n("delete_vpc") = 1

\* C27: nuke_vpc issues delete_vpc only after the gateway's detach and
\* delete, the route table's disassociation and delete, the subnets' and
\* the security groups' deletes, in this order; a deletion that fails keeps
\* none of the later ones, delete_vpc included, from being issued; without
\* a network tagged <name>-vpc it issues no call that changes anything.
C27_NetworkTeardown ==
    [][(pc = "dn_vpc" /\ pc' # pc) =>
          NetworkTeardown(Appended(log, log'), TRUE)]_vars

\* C27, ClientError only: the same when the failed call raised ClientError.
C27_ClientErrorOnly ==
    [][(pc = "dn_vpc" /\ pc' # pc) =>
          NetworkTeardown(Appended(log, log'), FALSE)]_vars

Times(n) ==
    IF n \in {"create_subnet", "create_security_group",
              "authorize_security_group_egress"} THEN 2 ELSE 1

\* No call of log l that changes something is issued more often than there
\* are objects for it, no provisioner is entered twice, and a second
\* call for a subnet or security group follows a first one that succeeded.
IssuedOnce(l, c) ==
    LET n(e) == Cardinality(Pos(l, e))
        twice(name, part) ==
            n(Call(name)) = 2 => \E w \in c.vpcs : part \in w.parts
    IN  /\ \A e \in Range(l) :
              /\ e.k = "call" => n(e) <= Times(e.n)
              /\ e.k = "begin" => n(e) = 1
        /\ twice("create_subnet", "sn1")
        /\ twice("create_security_group", "alb_sg")
        /\ twice("authorize_security_group_egress", "svc_sg")

\* C29: in a run of `up` every call that changes something is issued at
\* most once for each object, and a call that raised is not issued again;
\* the steps that repeat are the probes of the two waits, which read the
\* status and change nothing.
C29_NoRetryInUp ==
    [][cmd' = "up" =>
          /\ log' # log => IssuedOnce(log', cloud')
          /\ (cmd = "up" /\ pc' = pc /\ elapsed' # elapsed) =>
                /\ pc \in {"up_alb_wait", "up_service_wait"}
                /\ log' = log
                /\ cloud' = cloud
          /\ (cmd = "up" /\ pc' = pc) => log' = log]_vars

\* C29, witness: create_cluster raised in a run of `up`; the run ended
\* with that one call and no cluster.
C29_Witness ==
    /\ cmd = "up"
    /\ pc = "failed"
    /\ exc \in ErrKinds
    /\ Len(log) > 0
    /\ log[Len(log)] = Call("create_cluster")
    /\ Cardinality(Pos(log, Call("create_cluster"))) = 1
    /\ cloud.cluster # "ACTIVE"

\* C30: register_task_def, when its call returns, has added exactly one
\* revision to the family, one that was not there and that no service
\* referred to, whether or not a service exists; a call that raises adds
\* none.  The service that create_or_update_service creates or updates
\* refers to the revision this run registered.
C30_OneRevisionPerRun ==
    [][/\ (pc = "up_taskdef" /\ pc' # pc) =>
             LET new == cloud'.taskdefs \ cloud.taskdefs
             IN  /\ Cardinality(Pos(Appended(log, log'),
                                    Call("register_task_definition"))) = 1
                 /\ faults' = faults =>
                       /\ new = {loc'.task_def_arn}
                       /\ cloud.taskdefs \subseteq cloud'.taskdefs
                       /\ loc'.task_def_arn # cloud.service.td
                 /\ faults' # faults => cloud' = cloud /\ pc' = "failed"
       /\ (pc = "up_service" /\ pc' # pc /\ faults' = faults) =>
             /\ Cardinality(Pos(log, Call("register_task_definition"))) = 1
             /\ cloud'.service.td = loc.task_def_arn
             /\ cloud'.service.td \in cloud'.taskdefs
             /\ ServiceExists(cloud) => cloud.service.td # cloud'.service.td
             /\ cloud'.taskdefs = cloud.taskdefs]_vars

\* C30, witness: a run of `up` found a service, registered a revision and
\* updated the service to it.
C30_Witness ==
    /\ cmd = "up"
    /\ Call("register_task_definition") \in Range(log)
    /\ Call("update_service") \in Range(log)
    /\ Call("create_service") \notin Range(log)
    /\ pc \in {"up_service_wait", "up_save", "done"}
    /\ cloud.service.td = loc.task_def_arn
    /\ loc.task_def_arn \in cloud.taskdefs

\* The teardown steps of cmd_down and the deleting calls it issues whatever
\* the cloud holds.
DownSteps ==
    {"cleanup_ecs_elb", "deregister_task_defs", "delete_cluster",
     "delete_ecr_repo", "delete_log_group", "delete_iam", "nuke_vpc",
     "delete_s3_bucket"}
DownAlways ==
    {"update_service", "delete_service", "delete_cluster", "delete_repository",
     "delete_log_group", "detach_role_policy", "delete_role"}

\* C31: while nothing of the stack exists, every step of `down` in which no
\* error is injected goes on to the next step with no exception and the
\* cloud unchanged, every deleting call it issues ending in its not-found
\* error; the run that gets to its end has entered every teardown step,
\* issued the deleting calls and reported ok = true.
C31_DownOnNothing ==
    [][(/\ cmd = "down"
        /\ pc \notin {"idle", "done", "failed"}
        /\ pc' # pc
        /\ NoStackResource(cloud)
        /\ ~cloud.bucket
        /\ faults' = faults) =>
          LET s == Appended(log, log')
          IN  /\ pc' = NextPcDown(pc) \/ (pc = "dn_scale" /\ pc' = "dn_delsvc")
                    \/ (pc = "dn_cluster" /\ pc' = "dn_ecr")
              /\ exc' = "none"
              /\ cloud' = cloud
              /\ \A i \in DOMAIN s :
                    s[i].k = "call" => i < Len(s) /\ s[i + 1] = Failed(s[i].n)
              /\ pc' = "done" =>
                    /\ manifest' = down_info
                    /\ manifest'.ok
                    /\ "ok" \in out'
                    /\ \A n \in DownSteps : Begin(n) \in Range(log')
                    /\ \A n \in DownAlways : Call(n) \in Range(log')]_vars

\* C31, witness: a run of `down` on an account without any of the stack's
\* resources is done: every deleting call met its not-found error, and the
\* manifest says ok.
C31_Witness ==
    /\ cmd = "down"
    /\ pc = "done"
    /\ faults = 0
    /\ NoStackResource(cloud)
    /\ ~cloud.bucket
    /\ manifest = down_info
    /\ \A n \in DownAlways : Failed(n) \in Range(log)
    /\ Failed("list_objects_v2") \in Range(log)

\* C32: wait_until has probed before it returns, raises or sleeps, whatever
\* the timeout; a probe that answered true ended it with a return and no
\* exception, also when more than `timeout` had elapsed at that probe, and
\* it raised only at a probe that answered false.
C32_ProbeBeforeTimeout ==
    LET n == Len(log)
    IN  /\ pc # "w_fn" => n > 0 /\ tries > 0
        /\ n > 0 => log[1].k = "probe"
        /\ \A i \in 1..n :
              (log[i].k = "probe" /\ log[i].n) =>
                  pc = "w_returned" /\ exc = "none"
        /\ pc = "w_raised" => log[n].k = "probe" /\ ~log[n].n

\* C32, witness: with timeout 0 the first probe took longer than the
\* timeout and answered true: wait_until returned.
C32_Witness ==
    /\ pc = "w_returned"
    /\ args.timeout = 0
    /\ Len(log) = 1
    /\ log[1].n
    /\ log[1].t > args.timeout

\* The names of the calls in s.
CallNames(s) == {s[i].n : i \in CallsIn(s)}

\* The deleting calls nuke_vpc issues for the network v.
NukeCallsFor(v) ==
    (IF "igw" \in v.parts
     THEN {"detach_internet_gateway", "delete_internet_gateway"} ELSE {})
    \cup (IF "rt" \in v.parts
          THEN {"disassociate_route_table", "delete_route", "delete_route_table"}
          ELSE {})
    \cup (IF v.parts \cap {"sn1", "sn2"} # {} THEN {"delete_subnet"} ELSE {})
    \cup (IF v.parts \cap {"alb_sg", "svc_sg"} # {}
          THEN {"delete_security_group"} ELSE {})
    \cup {"delete_vpc"}

\* The calls of the teardown step at p that s may hold when the objects are
\* looked up in the cloud c by the stack's names and tags.
ByNameAndTag(p, c, s) ==
    CASE p = "dn_lb" ->
            s = IF c.lb = NoLb THEN {}
                ELSE {"delete_load_balancer"}
                        \cup (IF c.listener # 0 THEN {"delete_listener"} ELSE {})
      [] p = "dn_tg" -> s = IF c.tg = 0 THEN {} ELSE {"delete_target_group"}
      [] p = "dn_taskdefs" ->
            s = IF c.taskdefs = {} THEN {} ELSE {"deregister_task_definition"}
      [] p = "dn_iam" -> s = {"detach_role_policy", "delete_role"}
      [] p = "dn_vpc" ->
            IF TaggedVpcs(c) = {} THEN s = {}
            ELSE \E v \in TaggedVpcs(c) : s = NukeCallsFor(v)
      [] OTHER -> TRUE

\* C33: whatever infra_info.json holds in vpc_id, subnet_ids, alb_arn,
\* alb_sg_id, svc_sg_id, task_def_arn and iam_role_arn, cmd_down keeps
\* none of it in the variables its steps use, and the deleting calls of
\* its load-balancer, target-group, revision, role and network steps are
\* those for the objects the cloud holds under the stack's names and tags.
C33_IdsNotUsed ==
    [][(cmd = "down" /\ pc' # pc) =>
          /\ pc = "dn_load" =>
                /\ loc'.vpc_id = 0 /\ loc'.lb_arn = 0 /\ loc'.tg_arn = 0
                /\ loc'.listener_arn = 0 /\ loc'.task_def_arn = 0
                /\ loc'.set = {}
          /\ ByNameAndTag(pc, cloud, CallNames(Appended(log, log')))
          /\ pc = "dn_taskdefs" =>
                Cardinality(CallsIn(Appended(log, log')))
                    = Cardinality(cloud.taskdefs)]_vars

\* C33, witness: `down` ran to its end on a manifest whose ids are those of
\* other objects than the cloud held, and deleted the network, the load
\* balancer, the target group, the revision and the role.
C33_Witness ==
    /\ cmd = "down"
    /\ pc = "done"
    /\ IdFields \subseteq DOMAIN manifest0
    /\ manifest0.vpc_id = 2
    /\ manifest0.alb_arn = 2
    /\ \A n \in {"delete_vpc", "delete_load_balancer", "delete_target_group",
                  "deregister_task_definition", "delete_role"} :
           Call(n) \in Range(log) /\ Failed(n) \notin Range(log)
    /\ cloud.vpcs = {} /\ cloud.lb = NoLb /\ cloud.tg = 0
    /\ cloud.taskdefs = {} /\ ~cloud.role

\* C34: each of bucket_name, cluster, log_group and ecr_repo_url is the
\* manifest's value when the manifest holds its field and its name-derived
\* default when not, whatever other fields the manifest holds; the
\* repository name is the last component of ecr_repo_url, or the stack name
\* without it.
C34_FallbackPerField ==
    [][(cmd = "down" /\ pc' # pc) =>
          LET has(f) == f \in DOMAIN manifest
          IN  /\ pc = "dn_load" =>
                    /\ loc'.bucket_name = IF has("s3_bucket") THEN manifest.s3_bucket
                                          ELSE <<StackName, Account, "bucket">>
                    /\ loc'.cluster = IF has("ecs_cluster") THEN manifest.ecs_cluster
                                      ELSE StackName
                    /\ loc'.log_group = IF has("log_group") THEN manifest.log_group
                                        ELSE <<"", "ecs", StackName>>
                    /\ loc'.ecr_repo_url = IF has("ecr_repo_url")
                                           THEN manifest.ecr_repo_url ELSE <<>>
              /\ pc = "dn_ecr" =>
                    loc'.repo_name = IF has("ecr_repo_url")
                                     THEN manifest.ecr_repo_url[Len(manifest.ecr_repo_url)]
                                     ELSE StackName]_vars

\* C34, witness: the manifest held another stack's bucket, log group and
\* registry and no ecs_cluster: `down` works on those three and on the
\* cluster named after the stack.
C34_Witness ==
    /\ cmd = "down"
    /\ pc = "dn_ecr_chk"
    /\ DOMAIN manifest \cap NameFields = NameFields \ {"ecs_cluster"}
    /\ loc.cluster = StackName
    /\ loc.bucket_name = BucketName("other", Account)
    /\ loc.log_group = LogGroupName("other")
    /\ loc.repo_name = "other"

\* The confirmation loops of cmd_down: range(10), range(5), range(5),
\* range(5), range(10), and what each of them probes.
ProbeLimit(p) ==
    CASE p = "dn_cluster_chk" -> 10
      [] p = "dn_ecr_chk" -> 5
      [] p = "dn_logs_chk" -> 5
      [] p = "dn_iam_chk" -> 5
      [] p = "dn_vpc_chk" -> 10
      [] OTHER -> 0
Gone(p) ==
    CASE p = "dn_cluster_chk" -> check_deleted_ecs_cluster(cloud, loc.cluster)
      [] p = "dn_ecr_chk" -> check_deleted_ecr_repo(cloud, loc.repo_name)
      [] p = "dn_logs_chk" -> check_deleted_log_group(cloud, loc.log_group)
      [] p = "dn_iam_chk" -> check_deleted_iam_role(cloud)
      [] p = "dn_vpc_chk" -> check_deleted_vpc(cloud)
      [] OTHER -> TRUE

\* C35: a confirmation loop of `down` whose probes do not raise makes one
\* probe when the resource is gone and 10, 5, 5, 5 resp. 10 probes when it
\* is not, never more, changes nothing, and in both cases `down` goes on to
\* its next teardown step.
C35_BoundedConfirmation ==
    [][(cmd = "down" /\ ProbeLimit(pc) > 0 /\ pc' # pc) =>
          /\ tries' <= ProbeLimit(pc)
          /\ faults' = faults =>
                /\ tries' = IF Gone(pc) THEN 1 ELSE ProbeLimit(pc)
                /\ pc' = NextPcDown(pc)
                /\ exc' = "none"
                /\ cloud' = cloud
                /\ log' = log]_vars

\* C35, witness: delete_repository failed, the five probes of the registry
\* loop found the repository, and `down` is at its log-group step.
C35_Witness ==
    /\ cmd = "down"
    /\ pc = "dn_logs"
    /\ tries = 5
    /\ cloud.repo
    /\ exc = "none"
    /\ Failed("delete_repository") \in Range(log)

\* C36: `up` runs ensure_s3_bucket to its end before it enters
\* create_vpc_stack, and ensure_s3_bucket returns the bucket also when it
\* was there; `down` enters delete_s3_bucket after nuke_vpc and every other
\* teardown step, issues list_objects_v2 and delete_bucket nowhere else,
\* and has only its report left to write after it.
C36_BucketBrackets ==
    [][pc' # pc =>
          LET s == Appended(log, log')
          IN  /\ (cmd = "up" /\ pc = "up_s3") =>
                    /\ Begin("create_vpc_stack") \notin Range(log')
                    /\ faults' = faults =>
                          /\ End("ensure_s3_bucket") \in Range(s)
                          /\ cloud'.bucket
                          /\ "bucket_name" \in loc'.set
                          /\ pc' = "up_vpc"
              /\ (cmd = "up" /\ Begin("create_vpc_stack") \in Range(s)) =>
                    End("ensure_s3_bucket") \in Range(log)
              /\ (cmd = "down" /\ (\E e \in Range(s) :
                                      e.n \in {"delete_s3_bucket", "list_objects_v2",
                                               "delete_bucket"})) =>
                    /\ pc = "dn_s3"
                    /\ End("nuke_vpc") \in Range(log)
                    /\ \A n \in DownSteps \ {"delete_s3_bucket"} :
                          Begin(n) \in Range(log)
                    /\ pc' \in {"dn_save", "failed"}
              /\ (cmd = "down" /\ pc = "dn_vpc_chk" /\ pc' # "failed") =>
                    pc' = "dn_s3"]_vars

\* C36, witness: a run of `down` deleted the network and then, as its last
\* teardown step, the bucket.
C36_Witness ==
    /\ cmd = "down"
    /\ pc = "done"
    /\ ~cloud.bucket
    /\ \E i, j \in DOMAIN log :
          /\ log[i] = Call("delete_vpc")
          /\ log[j] = Call("delete_bucket")
          /\ i < j
          /\ Failed("delete_bucket") \notin Range(log)
          /\ \A k \in (j + 1)..Len(log) : log[k].n \in {"delete_s3_bucket",
                                                        "save_infra_json"}

\* The statuses describe_notebook_instance returned before position i of
\* the log, as positions.
SawBefore(i) == {j \in 1..(i - 1) : log[j].k = "saw"}

\* C37: in the notebook teardown delete_notebook_instance is issued only
\* when the status observed last is not InService: a notebook observed
\* InService is stopped first and the delete follows an observed Stopped.
\* When wait_for_notebook_status times out, the TimeoutError leaves
\* cmd_down: no delete_notebook_instance is issued and
\* delete_endpoint_resources is not run.
C37_StopBeforeDelete ==
    /\ \A i \in 1..Len(log) :
          log[i] = Call("delete_notebook_instance") =>
              /\ SawBefore(i) # {}
              /\ log[Max(SawBefore(i))].n # "InService"
              /\ \A j \in SawBefore(i) :
                    log[j].n = "InService" =>
                        /\ log[Max(SawBefore(i))].n = "Stopped"
                        /\ \E s \in (j + 1)..(Max(SawBefore(i)) - 1) :
                              log[s] = Call("stop_notebook_instance")
    /\ Failed("wait_for_notebook_status") \in Range(log) =>
          /\ pc = "failed"
          /\ exc = "TimeoutError"
          /\ Call("delete_notebook_instance") \notin Range(log)
          /\ Begin("delete_endpoint_resources") \notin Range(log)
          /\ End("delete_sagemaker_notebook") \notin Range(log)

\* The notebook was InService and was stopped, Stopped was not observed
\* within the timeout, and the endpoint of the stack is still there.
C37_Witness ==
    /\ Failed("wait_for_notebook_status") \in Range(log)
    /\ Saw("InService") \in Range(log)
    /\ Call("stop_notebook_instance") \in Range(log)
    /\ cloud.notebook = "Stopping"
    /\ cloud.endpoint
    /\ pc = "failed"

====
